---- MODULE Spec2Model ----
(***************************************************************************)
(* Verification model of the rendering-order, layout, margin and axis      *)
(* subsystems of the vendored charting engine (src/lib/qcustomplot.cpp).   *)
(*                                                                         *)
(*   SolverSpec   : QCPLayout::getSectionSizes as a pure function          *)
(*   GridSpec     : QCPLayoutGrid cells: addElement, takeAt, take, removeAt*)
(*   SimplifySpec : QCPLayoutGrid::simplify                                *)
(*   StretchSpec  : QCPLayoutGrid shape and stretch factors                *)
(*   VisSpec      : QCPLayerable visibility along parentLayerable          *)
(*   LayerSpec    : QCPLayer / QCPLayerable rendering-order lists          *)
(*   OwnSpec      : elements moving between a grid and an inset layout     *)
(*   SyncSpec     : QCPLayoutElement rects and margins, QCPMarginGroup     *)
(*   RegSpec      : registration of elements with margin groups            *)
(*   GridPlaceSpec  : QCPLayoutGrid::updateLayout                          *)
(*   InsetPlaceSpec : QCPLayoutInset::updateLayout                         *)
(*   ValidRangeSpec : QCPRange::validRange as a pure function              *)
(*   RangeSpec    : QCPAxis::setRange, setScaleType, calculateMargin       *)
(*   AxisRangeSpec: every operation that writes the range of a QCPAxis     *)
(*   CacheSpec    : the cached margin of a QCPAxis and its setters         *)
(*   TransformSpec: QCPAxis::coordToPixel and pixelToCoord                 *)
(*   TickSpec     : QCPAxis::generateAutoTicks in linear scale             *)
(***************************************************************************)
EXTENDS Integers, Sequences, FiniteSets, TLC

(***************************************************************************)
(* Exact model of the double arithmetic used by the solver.                *)
(* A number is n/d * 10^e; k tells finite values from the IEEE results of  *)
(* a division by zero.  Every input of the solver is an int or a small     *)
(* rational times a power of ten, so this arithmetic is exact where the    *)
(* doubles round; the decimal exponent lets stretch factors such as 1e-12  *)
(* meet the solver's 1e12 start value without leaving the integer range.   *)
(***************************************************************************)

RECURSIVE Pow10(_)
Pow10(k) == IF k = 0 THEN 1 ELSE 10 * Pow10(k - 1)

Dbl(n, d, e) ==
  LET RECURSIVE Gcd(_, _)
      Gcd(a, b) == IF b = 0 THEN a ELSE Gcd(b, a % b)
      Abs(x) == IF x < 0 THEN -x ELSE x
  IN
  IF n = 0 THEN [k |-> "fin", n |-> 0, d |-> 1, e |-> 0]
  ELSE LET g == Gcd(Abs(n), Abs(d))
           s == IF d < 0 THEN -1 ELSE 1
       IN [k |-> "fin", n |-> s * (n \div g), d |-> s * (d \div g), e |-> e]

DInt(i) == Dbl(i, 1, 0)

DAdd(a, b) ==
  \* a with its exponent lowered to e (e <= a.e)
  LET DAlign(a0, e) == [a0 EXCEPT !.n = a0.n * Pow10(a0.e - e), !.e = e]
  IN
  IF a.n = 0 THEN b
  ELSE IF b.n = 0 THEN a
  ELSE LET e  == IF a.e < b.e THEN a.e ELSE b.e
           x  == DAlign(a, e)
           y  == DAlign(b, e)
       IN Dbl(x.n * y.d + y.n * x.d, x.d * y.d, e)

DNeg(a) == [a EXCEPT !.n = -a.n]

DMul(a, b) == Dbl(a.n * b.n, a.d * b.d, a.e + b.e)

\* IEEE division: x/0 is +inf, -inf or NaN
DDiv(a, b) ==
  IF b.n = 0
  THEN [k |-> IF a.n > 0 THEN "pinf" ELSE IF a.n < 0 THEN "ninf" ELSE "nan",
        n |-> 0, d |-> 1, e |-> 0]
  ELSE Dbl(a.n * b.d, a.d * b.n, a.e - b.e)

\* a < b on finite values, comparing across exponents by shifting
FinLess(a, b) ==
  \* floor(x / 10^k) without forming 10^k
  LET RECURSIVE ShiftDown(_, _)
      ShiftDown(x, k) ==
        IF k = 0 \/ x = 0 \/ x = -1 THEN x ELSE ShiftDown(x \div 10, k - 1)
  IN
  LET x == a.n * b.d
      y == b.n * a.d
  IN IF a.n = 0 THEN b.n > 0
     ELSE IF b.n = 0 THEN a.n < 0
     ELSE IF a.e = b.e THEN x < y
     ELSE IF a.e < b.e THEN ShiftDown(x, b.e - a.e) < y
     ELSE ~(ShiftDown(y - 1, a.e - b.e) < x)

\* operator< of double: false whenever a NaN is involved
DLess(a, b) ==
  IF a.k = "nan" \/ b.k = "nan" THEN FALSE
  ELSE IF a.k = "pinf" THEN FALSE
  ELSE IF a.k = "ninf" THEN b.k # "ninf"
  ELSE IF b.k = "pinf" THEN TRUE
  ELSE IF b.k = "ninf" THEN FALSE
  ELSE FinLess(a, b)

\* qRound: nearest integer, halves upwards
qRound(a) ==
  LET n == IF a.e > 0 THEN a.n * Pow10(a.e) ELSE a.n
      d == IF a.e < 0 THEN a.d * Pow10(-a.e) ELSE a.d
  IN (2 * n + d) \div (2 * d)


(***************************************************************************)
(* QCPLayout::getSectionSizes.  Sections are numbered 1..n here (0..n-1 in *)
(* the source); -1 is the source's "no section" id.                        *)
(***************************************************************************)
RECURSIVE SumInts(_)
SumInts(s) == IF s = <<>> THEN 0 ELSE Head(s) + SumInts(Tail(s))

Contains(list, x) == \E i \in 1..Len(list) : list[i] = x

\* QList::removeOne: drops the first occurrence, if any
RemoveOne(list, x) ==
  IF ~Contains(list, x) THEN list
  ELSE LET p == CHOOSE i \in 1..Len(list) :
                  list[i] = x /\ \A j \in 1..(i - 1) : list[j] # x
       IN SubSeq(list, 1, p - 1) \o SubSeq(list, p + 1, Len(list))

\* the whole run: the returned vector and how the loops ended
SectionSizesRun(maxSizes, minSizes, stretchFactors, totalSize) ==
  LET DSub(a, b) == DAdd(a, DNeg(b))
  IN
  \* start value of nextMax
  LET NextMaxStart == Dbl(1, 1, 12)
  IN
  \* "find section that hits its maximum next"
  LET RECURSIVE FindNextMax(_, _, _, _, _)
      FindNextMax(i, unfinishedSections, sectionSizes, stretchFactors5, acc) ==
        IF i > Len(unfinishedSections) THEN acc
        ELSE LET secId     == unfinishedSections[i]
                 hitsMaxAt == DDiv(DSub(DInt(maxSizes[secId]), sectionSizes[secId]),
                                   stretchFactors5[secId])
             IN FindNextMax(i + 1, unfinishedSections, sectionSizes, stretchFactors5,
                            IF DLess(hitsMaxAt, acc.nextMax)
                            THEN [nextId |-> secId, nextMax |-> hitsMaxAt]
                            ELSE acc)
  IN
  LET RECURSIVE StretchFactorSum(_, _, _)
      StretchFactorSum(i, unfinishedSections, stretchFactors4) ==
        IF i > Len(unfinishedSections) THEN DInt(0)
        ELSE DAdd(stretchFactors4[unfinishedSections[i]],
                  StretchFactorSum(i + 1, unfinishedSections, stretchFactors4))
  IN
  \* "increment all sections": one pass over the list, an id listed twice is
  \* incremented twice; takeFree tells the branch that also lowers freeSize
  LET RECURSIVE IncrementAll(_, _, _, _, _, _)
      IncrementAll(i, unfinishedSections, stretchFactors3, step, takeFree, st) ==
        IF i > Len(unfinishedSections) THEN st
        ELSE LET secId == unfinishedSections[i]
                 inc   == DMul(step, stretchFactors3[secId])
             IN IncrementAll(i + 1, unfinishedSections, stretchFactors3, step, takeFree,
                  [st EXCEPT !.sectionSizes[secId] = DAdd(@, inc),
                             !.freeSize = IF takeFree THEN DSub(@, inc) ELSE @])
  IN
  \* one pass of the inner while loop's body
  LET InnerBody(st, stretchFactors2) ==
        LET nx == FindNextMax(1, st.unfinishedSections, st.sectionSizes,
                              stretchFactors2, [nextId |-> -1, nextMax |-> NextMaxStart])
            stretchFactorSum == StretchFactorSum(1, st.unfinishedSections, stretchFactors2)
            nextMaxLimit == DDiv(st.freeSize, stretchFactorSum)
        IN IF DLess(nx.nextMax, nextMaxLimit)
           THEN [IncrementAll(1, st.unfinishedSections, stretchFactors2, nx.nextMax, TRUE, st)
                   EXCEPT !.unfinishedSections = RemoveOne(@, nx.nextId)]
           ELSE [IncrementAll(1, st.unfinishedSections, stretchFactors2, nextMaxLimit, FALSE, st)
                   EXCEPT !.unfinishedSections = <<>>]
  IN
  LET RECURSIVE InnerLoop(_, _, _, _)
      InnerLoop(st, stretchFactors1, sectionCount, innerIterations) ==
        IF st.unfinishedSections # <<>> /\ innerIterations < sectionCount * 2
        THEN InnerLoop(InnerBody(st, stretchFactors1), stretchFactors1,
                       sectionCount, innerIterations + 1)
        ELSE [st EXCEPT !.innerExceeded = @ \/ (innerIterations = sectionCount * 2),
                        !.innerCut = @ \/ (st.unfinishedSections # <<>>)]
  IN
  \* "check whether the resulting section sizes violate minimum restrictions"
  LET RECURSIVE MinimumCheck(_, _, _, _)
      MinimumCheck(i, st, minSizes1, sectionCount) ==
        IF i > sectionCount THEN st
        ELSE IF Contains(st.minimumLockedSections, i)
             THEN MinimumCheck(i + 1, st, minSizes1, sectionCount)
             ELSE IF DLess(st.sectionSizes[i], DInt(minSizes1[i]))
                  THEN MinimumCheck(i + 1,
                         [st EXCEPT !.sectionSizes[i] = DInt(minSizes1[i]),
                                    !.foundMinimumViolation = TRUE,
                                    !.minimumLockedSections = Append(@, i)],
                         minSizes1, sectionCount)
                  ELSE MinimumCheck(i + 1, st, minSizes1, sectionCount)
  IN
  \* "put sections that haven't hit their minimum back into the pool"
  LET RECURSIVE Requeue(_, _, _)
      Requeue(i, st, sectionCount) ==
        IF i > sectionCount THEN st
        ELSE IF ~Contains(st.minimumLockedSections, i)
             THEN Requeue(i + 1, [st EXCEPT !.unfinishedSections = Append(@, i)], sectionCount)
             ELSE Requeue(i + 1, [st EXCEPT !.freeSize = DSub(@, st.sectionSizes[i])],
                          sectionCount)
  IN
  \* "reset all section sizes to zero that are in unfinished sections"
  LET RECURSIVE ResetUnfinished(_, _)
      ResetUnfinished(i, st) ==
        IF i > Len(st.unfinishedSections) THEN st
        ELSE ResetUnfinished(i + 1, [st EXCEPT !.sectionSizes[st.unfinishedSections[i]] = DInt(0)])
  IN
  LET RECURSIVE OuterLoop(_, _, _, _, _)
      OuterLoop(st, minSizes0, stretchFactors0, sectionCount, outerIterations) ==
        IF st.unfinishedSections # <<>> /\ outerIterations < sectionCount * 2
        THEN LET a == InnerLoop(st, stretchFactors0, sectionCount, 0)
                 b == MinimumCheck(1, [a EXCEPT !.foundMinimumViolation = FALSE],
                                   minSizes0, sectionCount)
                 c == IF b.foundMinimumViolation
                      THEN ResetUnfinished(1,
                             Requeue(1, [b EXCEPT !.freeSize = DInt(totalSize)], sectionCount))
                      ELSE b
             IN OuterLoop(c, minSizes0, stretchFactors0, sectionCount,
                          outerIterations + 1)
        ELSE [st EXCEPT !.outerExceeded = (outerIterations = sectionCount * 2),
                        !.outerCut = (st.unfinishedSections # <<>>)]
  IN
  IF Len(maxSizes) # Len(minSizes) \/ Len(minSizes) # Len(stretchFactors)
     \/ stretchFactors = <<>>
  THEN [result |-> <<>>, innerExceeded |-> FALSE, outerExceeded |-> FALSE,
        innerCut |-> FALSE, outerCut |-> FALSE]
  ELSE LET sectionCount == Len(stretchFactors)
           minSizeSum   == SumInts(minSizes)
           squeeze      == totalSize < minSizeSum
           sf  == IF squeeze THEN [i \in 1..sectionCount |-> DInt(minSizes[i])]
                  ELSE stretchFactors
           mn  == IF squeeze THEN [i \in 1..sectionCount |-> 0] ELSE minSizes
           st0 == [sectionSizes          |-> [i \in 1..sectionCount |-> DInt(0)],
                   unfinishedSections    |-> [i \in 1..sectionCount |-> i],
                   minimumLockedSections |-> <<>>,
                   freeSize              |-> DInt(totalSize),
                   foundMinimumViolation |-> FALSE,
                   innerExceeded |-> FALSE, outerExceeded |-> FALSE,
                   innerCut |-> FALSE, outerCut |-> FALSE]
           fin == OuterLoop(st0, mn, sf, sectionCount, 0)
       IN [result        |-> [i \in 1..sectionCount |-> qRound(fin.sectionSizes[i])],
           innerExceeded |-> fin.innerExceeded,
           outerExceeded |-> fin.outerExceeded,
           innerCut      |-> fin.innerCut,
           outerCut      |-> fin.outerCut]

getSectionSizes(maxSizes, minSizes, stretchFactors, totalSize) ==
  SectionSizesRun(maxSizes, minSizes, stretchFactors, totalSize).result


(***************************************************************************)
(* QCPLayout / QCPLayoutGrid.  A heap h holds the fields of all layout     *)
(* elements; the methods are functions from heaps to heaps.  Rows, columns *)
(* and cell indices are 0-based as in the source, sequences are 1-based.   *)
(*   h.ub      : what an operation with undefined behaviour does in this   *)
(*               call, "crash" or "continue"                               *)
(*   h.crashed : the process has died                                      *)
(***************************************************************************)
Null == "null"

Layouts == {"g1", "g2"}

Insets == {"i1"}

\* the four lists of an inset layout without elements
NoInsets == [mElements |-> <<>>, mInsetPlacement |-> <<>>, mInsetAlignment |-> <<>>,
             mInsetRect |-> <<>>]

ElementIds == {"e1", "e2", "g1", "g2", "i1"}

Max(a, b) == IF a > b THEN a ELSE b

\* QList::removeAt(i), i in 0..size-1
RemoveAt(list, i) == SubSeq(list, 1, i) \o SubSeq(list, i + 2, Len(list))

rowCount(h, g) == Len(h.mElements[g])

columnCount(h, g) ==
  IF Len(h.mElements[g]) > 0 THEN Len(h.mElements[g][1]) ELSE 0

hasElement(h, g, row, column) ==
  IF row >= 0 /\ row < rowCount(h, g) /\ column >= 0 /\ column < columnCount(h, g)
  THEN h.mElements[g][row + 1][column + 1] # Null
  ELSE FALSE

elementCount(h, g) == rowCount(h, g) * columnCount(h, g)

elementAt(h, g, index) ==
  IF index >= 0 /\ index < elementCount(h, g)
  THEN h.mElements[g][(index \div columnCount(h, g)) + 1][(index % columnCount(h, g)) + 1]
  ELSE Null

adoptElement(h, g, el) ==
  IF el # Null
  THEN [h EXCEPT !.mParentLayout[el] = g, !.mParentLayerable[el] = g]
  ELSE h

releaseElement(h, g, el) ==
  IF el # Null
  THEN [h EXCEPT !.mParentLayout[el] = Null, !.mParentLayerable[el] = Null]
  ELSE h

\* returns the heap and the taken element (Null on failure)
takeAt(h, g, index) ==
  LET el == elementAt(h, g, index)
  IN IF el # Null
     THEN [h   |-> [releaseElement(h, g, el)
                      EXCEPT !.mElements[g][(index \div columnCount(h, g)) + 1]
                                           [(index % columnCount(h, g)) + 1] = Null],
           ret |-> el]
     ELSE [h |-> h, ret |-> Null]

take(h, g, el) ==
  IF el # Null /\ \E i \in 0..(elementCount(h, g) - 1) : elementAt(h, g, i) = el
  THEN LET first == CHOOSE i \in 0..(elementCount(h, g) - 1) :
                      /\ elementAt(h, g, i) = el
                      /\ \A j \in 0..(i - 1) : elementAt(h, g, j) # el
       IN [h |-> takeAt(h, g, first).h, ret |-> TRUE]
  ELSE [h |-> h, ret |-> FALSE]

\* QCPLayoutInset: mElements, mInsetPlacement, mInsetAlignment and mInsetRect
\* of inset layout i are the four lists of h.mInsets[i]
insetElementCount(h, i) == Len(h.mInsets[i].mElements)

insetElementAt(h, i, index) ==
  IF index >= 0 /\ index < Len(h.mInsets[i].mElements)
  THEN h.mInsets[i].mElements[index + 1]
  ELSE Null

insetTakeAt(h, i, index) ==
  LET el == insetElementAt(h, i, index)
  IN IF el # Null
     THEN [h   |-> [releaseElement(h, i, el)
                      EXCEPT !.mInsets[i] =
                        [mElements       |-> RemoveAt(@.mElements, index),
                         mInsetPlacement |-> RemoveAt(@.mInsetPlacement, index),
                         mInsetAlignment |-> RemoveAt(@.mInsetAlignment, index),
                         mInsetRect      |-> RemoveAt(@.mInsetRect, index)]],
           ret |-> el]
     ELSE [h |-> h, ret |-> Null]

insetTake(h, i, el) ==
  IF el # Null /\ \E k \in 0..(insetElementCount(h, i) - 1) : insetElementAt(h, i, k) = el
  THEN LET first == CHOOSE k \in 0..(insetElementCount(h, i) - 1) :
                      /\ insetElementAt(h, i, k) = el
                      /\ \A j \in 0..(k - 1) : insetElementAt(h, i, j) # el
       IN [h |-> insetTakeAt(h, i, first).h, ret |-> TRUE]
  ELSE [h |-> h, ret |-> FALSE]

virtualElementAt(h, layout, index) ==
  IF layout \in Insets THEN insetElementAt(h, layout, index)
  ELSE elementAt(h, layout, index)

virtualTake(h, layout, el) ==
  IF layout \in Insets THEN insetTake(h, layout, el) ELSE take(h, layout, el)

expandTo(h, g, newRowCount, newColumnCount) ==
  \* while (size < n) append(x)
  LET PadTo(list, n, x) == list \o [k \in 1..Max(0, n - Len(list)) |-> x]
  IN
  LET rows1     == PadTo(h.mElements[g], newRowCount, <<>>)
      rowSF1    == PadTo(h.mRowStretchFactors[g], Len(rows1), 1)
      colCount1 == IF Len(rows1) > 0 THEN Len(rows1[1]) ELSE 0
      newColCount == Max(colCount1, newColumnCount)
      rows2     == [i \in 1..Len(rows1) |-> PadTo(rows1[i], newColCount, Null)]
  IN [h EXCEPT !.mElements[g] = rows2,
               !.mRowStretchFactors[g] = rowSF1,
               !.mColumnStretchFactors[g] = PadTo(@, newColCount, 1)]

\* the body of addElement once the element and the cell are accepted;
\* mElements[row][column] with a negative index is an out-of-range write: the
\* cell is not set, the process dies or goes on
AddToCell(h, g, row, column, el) ==
  LET h1 == IF h.mParentLayout[el] # Null
            THEN virtualTake(h, h.mParentLayout[el], el).h
            ELSE h
      h2 == expandTo(h1, g, row + 1, column + 1)
      h3 == IF row < 0 \/ column < 0
            THEN IF h.ub = "crash" THEN [h2 EXCEPT !.crashed = TRUE] ELSE h2
            ELSE [h2 EXCEPT !.mElements[g][row + 1][column + 1] = el]
  IN [h |-> adoptElement(h3, g, el), ret |-> TRUE]

\* addElement without the test of the cell
addElementOverwriting(h, g, row, column, el) ==
  IF el # Null
  THEN AddToCell(h, g, row, column, el)
  ELSE [h |-> h, ret |-> FALSE]

addElement(h, g, row, column, el) ==
  IF el # Null
  THEN IF ~hasElement(h, g, row, column)
       THEN AddToCell(h, g, row, column, el)
       ELSE [h |-> h, ret |-> FALSE]
  ELSE [h |-> h, ret |-> FALSE]

\* "remove rows with only empty cells", from the last row to the first
RECURSIVE SimplifyRows(_, _, _)
SimplifyRows(h, g, row) ==
  IF row < 0 THEN h
  ELSE LET hasElements == \E col \in 0..(columnCount(h, g) - 1) :
                            h.mElements[g][row + 1][col + 1] # Null
           rows1 == RemoveAt(h.mElements[g], row)
       IN SimplifyRows(
            IF hasElements THEN h
            ELSE [h EXCEPT !.mRowStretchFactors[g] = RemoveAt(@, row),
                           !.mElements[g] = rows1,
                           !.mColumnStretchFactors[g] = IF rows1 = <<>> THEN <<>> ELSE @],
            g, row - 1)

\* simplify that stops after the rows
simplifyRowsOnly(h, g) == SimplifyRows(h, g, rowCount(h, g) - 1)

simplify(h, g) ==
  \* "remove columns with only empty cells", from the last column to the first
  LET RECURSIVE SimplifyColumns(_, _, _)
      SimplifyColumns(h4, g0, col) ==
        IF col < 0 THEN h4
        ELSE LET hasElements == \E row \in 0..(rowCount(h4, g0) - 1) :
                                  h4.mElements[g0][row + 1][col + 1] # Null
             IN SimplifyColumns(
                  IF hasElements THEN h4
                  ELSE [h4 EXCEPT !.mColumnStretchFactors[g0] = RemoveAt(@, col),
                                 !.mElements[g0] = [row \in 1..Len(@) |-> RemoveAt(@[row], col)]],
                  g0, col - 1)
  IN
  LET h1 == SimplifyRows(h, g, rowCount(h, g) - 1)
  IN SimplifyColumns(h1, g, columnCount(h1, g) - 1)

\* delete el.  ~QCPLayoutGrid clears the cells; ~QCPLayoutElement leaves the
\* parent layout unless that is itself inside ~QObject (the qobject_cast
\* safeguard); ~QObject deletes the remaining QObject children, which are the
\* elements adopted by el; the QPointers to el then read as null.
\* h.dying holds the objects whose destructor is running.  A deleted object
\* has no fields any more: the model keeps the initial values in their place.
RECURSIVE ClearFrom(_, _, _)
RECURSIVE removeAt(_, _, _)
RECURSIVE DeleteElement(_, _)
RECURSIVE DeleteChildren(_, _)

\* QCPLayout::clear's loop, from cell i down to cell 0
ClearFrom(h, g, i) ==
  IF i < 0 THEN h
  ELSE ClearFrom(IF virtualElementAt(h, g, i) # Null THEN removeAt(h, g, i).h ELSE h,
                 g, i - 1)

\* QCPLayoutInset::simplify() is empty
clear(h, g) ==
  \* the virtual methods of QCPLayout, by the class of layout
  LET virtualElementCount(layout) ==
        IF layout \in Insets THEN insetElementCount(h, layout) ELSE elementCount(h, layout)
  IN
  LET h1 == ClearFrom(h, g, virtualElementCount(g) - 1)
  IN IF g \in Insets THEN h1 ELSE simplify(h1, g)

removeAt(h, g, index) ==
  LET virtualTakeAt(layout) ==
        IF layout \in Insets THEN insetTakeAt(h, layout, index) ELSE takeAt(h, layout, index)
      t == virtualTakeAt(g)
  IN IF t.ret # Null
     THEN [h |-> DeleteElement(t.h, t.ret), ret |-> TRUE]
     ELSE [h |-> h, ret |-> FALSE]

DeleteChildren(h, el) ==
  LET children == {x \in h.alive \ h.dying : h.mParentLayout[x] = el}
  IN IF children = {} THEN h
     ELSE DeleteChildren(DeleteElement(h, CHOOSE x \in children : TRUE), el)

DeleteElement(h, el) ==
  LET h0 == [h EXCEPT !.dying = @ \cup {el}]
      h1 == IF el \in Layouts \cup Insets THEN clear(h0, el) ELSE h0
      h2 == IF h1.mParentLayout[el] # Null /\ h1.mParentLayout[el] \notin h1.dying
            THEN virtualTake(h1, h1.mParentLayout[el], el).h
            ELSE h1
      h3 == DeleteChildren(h2, el)
  IN [h3 EXCEPT !.alive = @ \ {el},
                !.dying = @ \ {el},
                !.mElements = [x \in DOMAIN @ |-> IF x = el THEN <<>> ELSE @[x]],
                !.mRowStretchFactors = [x \in DOMAIN @ |-> IF x = el THEN <<>> ELSE @[x]],
                !.mColumnStretchFactors = [x \in DOMAIN @ |-> IF x = el THEN <<>> ELSE @[x]],
                !.mInsets = [x \in DOMAIN @ |-> IF x = el THEN NoInsets ELSE @[x]],
                !.mParentLayout[el] = Null,
                !.mParentLayerable =
                   [x \in DOMAIN @ |-> IF @[x] = el \/ x = el THEN Null ELSE @[x]]]

(***************************************************************************)
(* QCPLayer and QCPLayerable.  s holds the fields of all layers and        *)
(* layerables: mChildren per layer, mLayer and mParentPlot per layerable,  *)
(* the sets of existing layers and layerables, and whether the process     *)
(* died.                                                                   *)
(***************************************************************************)
LayerIds == {"L1", "L2", "L3"}

LayerableIds == {"a", "b", "c"}

\* addChild with prepend and append exchanged
addChildExchanged(s, layer, layerable, prepend) ==
  IF ~Contains(s.mChildren[layer], layerable)
  THEN IF prepend
       THEN [s EXCEPT !.mChildren[layer] = Append(@, layerable)]
       ELSE [s EXCEPT !.mChildren[layer] = <<layerable>> \o @]
  ELSE s

addChild(s, layer, layerable, prepend) ==
  IF ~Contains(s.mChildren[layer], layerable)
  THEN IF prepend
       THEN [s EXCEPT !.mChildren[layer] = <<layerable>> \o @]
       ELSE [s EXCEPT !.mChildren[layer] = Append(@, layerable)]
  ELSE s

\* removeChild that forgets to remove
removeChildKeeping(s, layer, layerable) == s

removeChild(s, layer, layerable) ==
  [s EXCEPT !.mChildren[layer] = RemoveOne(@, layerable)]

(***************************************************************************)
(* QCPLayoutElement rectangles and margins, QCPMarginGroup.  s is the      *)
(* state of the elements and margin groups: a record with the fields       *)
(* mOuterRect, mRect, mMargins, mMinimumMargins, mMinimumSize,             *)
(* mMaximumSize, mAutoMargins and mMarginGroups per element,               *)
(* mColumnSpacing and mRowSpacing per grid layout, mGroupChildren per      *)
(* margin group (the mChildren of QCPMarginGroup) and groups, the margin   *)
(* groups that exist.                                                      *)
(***************************************************************************)
\* QRect keeps its corners: x1, y1 (left, top) and x2, y2 (right, bottom)
QRect(x, y, w, h) == [x1 |-> x, y1 |-> y, x2 |-> x + w - 1, y2 |-> y + h - 1]

width(rect) == rect.x2 - rect.x1 + 1

height(rect) == rect.y2 - rect.y1 + 1

QMargins(l, t, r, b) == [left |-> l, top |-> t, right |-> r, bottom |-> b]

QSize(w, h) == [width |-> w, height |-> h]

\* Qt's largest widget size, (1 << 24) - 1
QWIDGETSIZE_MAX == 16777215

\* the order in which setMarginGroup and update go through the sides
Sides == <<"msLeft", "msRight", "msTop", "msBottom">>

msAll == {"msLeft", "msRight", "msTop", "msBottom"}

msNone == {}

getMarginValue(margins, side) ==
  CASE side = "msLeft" -> margins.left
    [] side = "msRight" -> margins.right
    [] side = "msTop" -> margins.top
    [] side = "msBottom" -> margins.bottom
    [] OTHER -> 0

\* the rect the two setters compute
InnerRect(outer, margins) ==
  LET adjusted(rect, dx1, dy1, dx2, dy2) ==
        [x1 |-> rect.x1 + dx1, y1 |-> rect.y1 + dy1, x2 |-> rect.x2 + dx2, y2 |-> rect.y2 + dy2]
  IN
  adjusted(outer, margins.left, margins.top, -margins.right, -margins.bottom)

setOuterRect(s, e, rect) ==
  IF s.mOuterRect[e] # rect
  THEN [s EXCEPT !.mOuterRect[e] = rect,
                 !.mRect[e] = InnerRect(rect, s.mMargins[e])]
  ELSE s

setMargins(s, e, margins) ==
  IF s.mMargins[e] # margins
  THEN [s EXCEPT !.mMargins[e] = margins,
                 !.mRect[e] = InnerRect(s.mOuterRect[e], margins)]
  ELSE s

marginRemoveChildSkipped(s, group, side, e) == s

marginRemoveChild(s, group, side, e) ==
  [s EXCEPT !.mGroupChildren[group][side] = RemoveOne(@, e)]

setMarginGroup(s, e, sides, group) ==
  LET marginAddChild(s6, group2, side, e2) ==
        IF ~Contains(s6.mGroupChildren[group2][side], e2)
        THEN [s6 EXCEPT !.mGroupChildren[group2][side] = Append(@, e2)]
        ELSE s6
  IN
  \* one turn of the loop of setMarginGroup
  LET SetMarginGroupSide(s5, e1, side, group1) ==
        IF s5.mMarginGroups[e1][side] # group1
        THEN LET oldGroup == s5.mMarginGroups[e1][side]
                 s1 == IF oldGroup # Null THEN marginRemoveChild(s5, oldGroup, side, e1) ELSE s5
             IN IF group1 = Null
                THEN [s1 EXCEPT !.mMarginGroups[e1][side] = Null]
                ELSE marginAddChild([s1 EXCEPT !.mMarginGroups[e1][side] = group1], group1, side, e1)
        ELSE s5
  IN
  LET RECURSIVE SetMarginGroupFrom(_, _, _, _, _)
      SetMarginGroupFrom(s4, e0, sides0, group0, i) ==
        IF i > Len(Sides) THEN s4
        ELSE SetMarginGroupFrom(IF Sides[i] \in sides0
                                THEN SetMarginGroupSide(s4, e0, Sides[i], group0) ELSE s4,
                                e0, sides0, group0, i + 1)
  IN                                  SetMarginGroupFrom(s, e, sides, group, 1)

calculateAutoMargin(s, e, side) ==
  Max(getMarginValue(s.mMargins[e], side), getMarginValue(s.mMinimumMargins[e], side))

RECURSIVE CommonMarginFrom(_, _, _, _, _)
CommonMarginFrom(s, side, elements, i, result) ==
  IF i > Len(elements) THEN result
  ELSE IF side \notin s.mAutoMargins[elements[i]]
       THEN CommonMarginFrom(s, side, elements, i + 1, result)
       ELSE LET mm == Max(calculateAutoMargin(s, elements[i], side),
                          getMarginValue(s.mMinimumMargins[elements[i]], side))
            IN CommonMarginFrom(s, side, elements, i + 1,
                                IF mm > result THEN mm ELSE result)

\* commonMargin that asks every element of the side, automatic or not
commonMarginOfAll(s, group, side) ==
  CommonMarginFrom([s EXCEPT !.mAutoMargins = [x \in DOMAIN @ |-> msAll]],
                   side, s.mGroupChildren[group][side], 1, 0)

commonMargin(s, group, side) ==
  CommonMarginFrom(s, side, s.mGroupChildren[group][side], 1, 0)

update(s, e) ==
  LET setMarginValue(margins, side, value) ==
        CASE side = "msLeft" -> [margins EXCEPT !.left = value]
          [] side = "msRight" -> [margins EXCEPT !.right = value]
          [] side = "msTop" -> [margins EXCEPT !.top = value]
          [] side = "msBottom" -> [margins EXCEPT !.bottom = value]
          [] OTHER -> margins
  IN
  \* one turn of the loop of update
  LET UpdateSide(side, newMargins) ==
        IF side \in s.mAutoMargins[e]
        THEN LET m1 == IF s.mMarginGroups[e][side] # Null
                       THEN setMarginValue(newMargins, side,
                                           commonMargin(s, s.mMarginGroups[e][side], side))
                       ELSE setMarginValue(newMargins, side, calculateAutoMargin(s, e, side))
             IN IF getMarginValue(m1, side) < getMarginValue(s.mMinimumMargins[e], side)
                THEN setMarginValue(m1, side, getMarginValue(s.mMinimumMargins[e], side))
                ELSE m1
        ELSE newMargins
  IN
  LET RECURSIVE UpdateFrom(_, _)
      UpdateFrom(newMargins, i) ==
        IF i > Len(Sides) THEN newMargins
        ELSE UpdateFrom(UpdateSide(Sides[i], newMargins), i + 1)
  IN
  IF s.mAutoMargins[e] # msNone
  THEN setMargins(s, e, UpdateFrom(s.mMargins[e], 1))
  ELSE s

MarginGroupIds == {"m1", "m2"}

(***************************************************************************)
(* Double arithmetic of QCPRange and QCPAxis: the exact arithmetic above,  *)
(* carried on to the IEEE values a division by zero gives, and to operands *)
(* so far apart that the smaller one is lost in the rounding.              *)
(***************************************************************************)
NaN == [k |-> "nan", n |-> 0, d |-> 1, e |-> 0]

Inf(positive) == [k |-> IF positive THEN "pinf" ELSE "ninf", n |-> 0, d |-> 1, e |-> 0]

\* n/d * 10^e with no factor 10 left in n or d
RECURSIVE DNorm(_)
DNorm(x) ==
  IF x.n = 0 THEN x
  ELSE IF x.n % 10 = 0 THEN DNorm([x EXCEPT !.n = x.n \div 10, !.e = x.e + 1])
  ELSE IF x.d % 10 = 0 THEN DNorm([x EXCEPT !.d = x.d \div 10, !.e = x.e - 1])
  ELSE x

XNeg(x) ==
  CASE x.k = "fin" -> DNeg(x)
    [] x.k = "pinf" -> Inf(FALSE)
    [] x.k = "ninf" -> Inf(TRUE)
    [] OTHER -> NaN

XAdd(x, y) ==
  \* decimal digits between the exponents from which the sum of two doubles of
  \* few-digit mantissas is the larger operand (a double has 53 bits)
  LET RoundingGap == 18
  IN
  IF x.k = "nan" \/ y.k = "nan" THEN NaN
  ELSE IF x.k # "fin" THEN (IF y.k = "fin" \/ y.k = x.k THEN x ELSE NaN)
  ELSE IF y.k # "fin" THEN y
  ELSE IF x.n = 0 \/ y.n = 0 THEN DAdd(x, y)
  ELSE LET u == DNorm(x)
           v == DNorm(y)
       IN IF u.e - v.e >= RoundingGap THEN u
          ELSE IF v.e - u.e >= RoundingGap THEN v
          ELSE DAdd(u, v)

XSub(x, y) == XAdd(x, XNeg(y))

XMul(x, y) ==
  IF x.k = "nan" \/ y.k = "nan" THEN NaN
  ELSE IF x.k = "fin" /\ y.k = "fin" THEN DMul(x, y)
  ELSE LET sx == IF x.k = "fin" THEN x.n ELSE IF x.k = "pinf" THEN 1 ELSE -1
           sy == IF y.k = "fin" THEN y.n ELSE IF y.k = "pinf" THEN 1 ELSE -1
       IN IF sx = 0 \/ sy = 0 THEN NaN ELSE Inf((sx > 0) = (sy > 0))

XDiv(x, y) ==
  IF x.k = "nan" \/ y.k = "nan" THEN NaN
  ELSE IF x.k = "fin" /\ y.k = "fin" THEN DDiv(x, y)
  ELSE IF x.k # "fin" /\ y.k # "fin" THEN NaN
  ELSE IF y.k # "fin" THEN DInt(0)
  ELSE Inf((x.k = "pinf") = (y.n >= 0))

\* operator== of double
DEq(x, y) ==
  IF x.k = "nan" \/ y.k = "nan" THEN FALSE
  ELSE IF x.k # "fin" \/ y.k # "fin" THEN x.k = y.k
  ELSE ~FinLess(x, y) /\ ~FinLess(y, x)

\* operator<= of double
DLessEq(x, y) == DLess(x, y) \/ DEq(x, y)

qAbs(x) == IF DLess(x, DInt(0)) THEN XNeg(x) ELSE x

\* floor and ceil of a finite value, as an integer
DFloor(x) ==
  LET n == IF x.e > 0 THEN x.n * Pow10(x.e) ELSE x.n
      d == IF x.e < 0 THEN x.d * Pow10(-x.e) ELSE x.d
  IN n \div d

DCeil(x) == -DFloor(DNeg(x))

(***************************************************************************)
(* QCPRange                                                                *)
(***************************************************************************)
QCPRange(lower, upper) == [lower |-> lower, upper |-> upper]

minRange == Dbl(1, 1, -280)

maxRange == Dbl(1, 1, 250)

size(range) == XSub(range.upper, range.lower)

center(range) == XMul(XAdd(range.upper, range.lower), Dbl(5, 1, -1))

normalize(range) ==
  IF DLess(range.upper, range.lower) THEN QCPRange(range.upper, range.lower) ELSE range

sanitizedForLinScale(range) == normalize(range)

\* the sign domain is chosen the wrong way round
sanitizedForLogScaleNarrower(range) ==
  LET rangeFac == Dbl(1, 1, -3)
  IN
  \* "case lower is 0"
  LET LowerFromFac(r) ==
        IF DLess(rangeFac, XMul(r.upper, rangeFac))
        THEN [r EXCEPT !.lower = rangeFac]
        ELSE [r EXCEPT !.lower = XMul(r.upper, rangeFac)]
  IN
  \* "case upper is 0"
  LET UpperFromFac(r) ==
        IF DLess(XMul(r.lower, rangeFac), XNeg(rangeFac))
        THEN [r EXCEPT !.upper = XNeg(rangeFac)]
        ELSE [r EXCEPT !.upper = XMul(r.lower, rangeFac)]
  IN
  LET r == normalize(range)
      zero == DInt(0)
  IN IF DEq(r.lower, zero) /\ ~DEq(r.upper, zero) THEN LowerFromFac(r)
     ELSE IF ~DEq(r.lower, zero) /\ DEq(r.upper, zero) THEN UpperFromFac(r)
     ELSE IF DLess(r.lower, zero) /\ DLess(zero, r.upper)
          THEN IF DLess(r.upper, XNeg(r.lower)) THEN LowerFromFac(r) ELSE UpperFromFac(r)
          ELSE r

sanitizedForLogScale(range) ==
  LET rangeFac == Dbl(1, 1, -3)
  IN
  \* "case lower is 0"
  LET LowerFromFac(r) ==
        IF DLess(rangeFac, XMul(r.upper, rangeFac))
        THEN [r EXCEPT !.lower = rangeFac]
        ELSE [r EXCEPT !.lower = XMul(r.upper, rangeFac)]
  IN
  \* "case upper is 0"
  LET UpperFromFac(r) ==
        IF DLess(XMul(r.lower, rangeFac), XNeg(rangeFac))
        THEN [r EXCEPT !.upper = XNeg(rangeFac)]
        ELSE [r EXCEPT !.upper = XMul(r.lower, rangeFac)]
  IN
  LET r == normalize(range)
      zero == DInt(0)
  IN IF DEq(r.lower, zero) /\ ~DEq(r.upper, zero) THEN LowerFromFac(r)
     ELSE IF ~DEq(r.lower, zero) /\ DEq(r.upper, zero) THEN UpperFromFac(r)
     ELSE IF DLess(r.lower, zero) /\ DLess(zero, r.upper)
          THEN IF DLess(r.upper, XNeg(r.lower)) THEN UpperFromFac(r) ELSE LowerFromFac(r)
          ELSE r

validRange(lower, upper) ==
  /\ DLess(XNeg(maxRange), lower)
  /\ DLess(upper, maxRange)
  /\ DLess(minRange, qAbs(XSub(lower, upper)))
  /\ DLess(qAbs(XSub(lower, upper)), maxRange)

(***************************************************************************)
(* QCPAxis.  ax is the state of the axis: a record with the fields mRange, *)
(* mRangeReversed, mScaleType, orientation, mAxisRect, mCachedMarginValid, *)
(* mTickStep, mAutoTickStep, mAutoTickCount, mTickVector, the fields that  *)
(* calculateMargin reads and writes, and emitted, the signals the call     *)
(* emitted.                                                                *)
(***************************************************************************)
SameBounds(range, other) == DEq(range.lower, other.lower) /\ DEq(range.upper, other.upper)

RangeChanged(newRange, oldRange) ==
  << [signal |-> "rangeChanged(QCPRange)", newRange |-> newRange, oldRange |-> newRange],
     [signal |-> "rangeChanged(QCPRange,QCPRange)", newRange |-> newRange,
      oldRange |-> oldRange] >>

setRangeUnchecked(ax, range) ==
  IF SameBounds(range, ax.mRange) THEN ax
  ELSE LET newRange == IF ax.mScaleType = "stLogarithmic"
                       THEN sanitizedForLogScale(range)
                       ELSE sanitizedForLinScale(range)
       IN [ax EXCEPT !.mRange = newRange,
                     !.mCachedMarginValid = FALSE,
                     !.emitted = RangeChanged(newRange, ax.mRange)]

setRange(ax, range) ==
  IF SameBounds(range, ax.mRange) THEN ax
  ELSE IF ~validRange(range.lower, range.upper) THEN ax
  ELSE LET newRange == IF ax.mScaleType = "stLogarithmic"
                       THEN sanitizedForLogScale(range)
                       ELSE sanitizedForLinScale(range)
       IN [ax EXCEPT !.mRange = newRange,
                     !.mCachedMarginValid = FALSE,
                     !.emitted = RangeChanged(newRange, ax.mRange)]

\* the axis after calculateMargin; the margin returned is mCachedMargin.
\* The extents of the tick labels and of the axis label are what the font
\* metrics answer, one fixed size here.
calculateMargin(ax) ==
  LET tickLabelsSize == [width |-> 20, height |-> 10]
      bounds == [width |-> 30, height |-> 12]
      qMax(a, b) == IF a > b THEN a ELSE b
      ticks == IF ax.mTicks THEN qMax(0, qMax(ax.mTickLengthOut, ax.mSubTickLengthOut)) ELSE 0
      tickLabels ==
        IF ax.mTickLabels
        THEN (IF ax.orientation = "Horizontal" THEN tickLabelsSize.height
              ELSE tickLabelsSize.width) + ax.mTickLabelPadding
        ELSE 0
      label == IF ax.mLabel # "" THEN bounds.height + ax.mLabelPadding ELSE 0
      margin == (IF ax.mVisible THEN ticks + tickLabels + label ELSE 0) + ax.mPadding
  IN IF ax.mCachedMarginValid THEN ax
     ELSE [ax EXCEPT !.mCachedMargin = margin, !.mCachedMarginValid = TRUE]

(***************************************************************************)
(* generateAutoTicks divides the size of the range by mAutoTickCount+1e-10.*)
(* The quotient is below y = size/mAutoTickCount by the factor             *)
(* 1e-10/mAutoTickCount; for the ranges and counts used here no integer    *)
(* and no power of ten lies between the two, so the floor of the quotient  *)
(* (of its logarithm, of its multiples) is the greatest integer strictly   *)
(* below that of y.                                                        *)
(***************************************************************************)

\* baseLog for the base 10 the axis is constructed with: the decimal exponent
\* of a power of ten, the only values the logarithm is taken of here
baseLog(x) ==
  CASE x.k = "fin" /\ DNorm(x).n = 1 /\ DNorm(x).d = 1 -> DInt(DNorm(x).e)

\* coordToPixel, with the reversed flag as reversed
CoordToPixelWith(ax, value, reversed) ==
  LET left == DInt(ax.mAxisRect.x1)
      right == DInt(ax.mAxisRect.x2)
      top == DInt(ax.mAxisRect.y1)
      bottom == DInt(ax.mAxisRect.y2)
      w == DInt(width(ax.mAxisRect))
      h == DInt(height(ax.mAxisRect))
      range == ax.mRange
      zero == DInt(0)
      far == DInt(200)
      linear == IF ~reversed
                THEN XDiv(XSub(value, range.lower), size(range))
                ELSE XDiv(XSub(range.upper, value), size(range))
  IN IF ax.orientation = "Horizontal"
     THEN IF ax.mScaleType = "stLinear"
          THEN XAdd(XMul(linear, w), left)
          ELSE IF DLessEq(zero, value) /\ DLess(range.upper, zero)
               THEN (IF ~reversed THEN XAdd(right, far) ELSE XSub(left, far))
          ELSE IF DLessEq(value, zero) /\ DLess(zero, range.upper)
               THEN (IF ~reversed THEN XSub(left, far) ELSE XAdd(right, far))
          ELSE IF ~reversed
               THEN XAdd(XMul(XDiv(baseLog(XDiv(value, range.lower)),
                                   baseLog(XDiv(range.upper, range.lower))), w), left)
               ELSE XAdd(XMul(XDiv(baseLog(XDiv(range.upper, value)),
                                   baseLog(XDiv(range.upper, range.lower))), w), left)
     ELSE IF ax.mScaleType = "stLinear"
          THEN XSub(bottom, XMul(linear, h))
          ELSE IF DLessEq(zero, value) /\ DLess(range.upper, zero)
               THEN (IF ~reversed THEN XSub(top, far) ELSE XAdd(bottom, far))
          ELSE IF DLessEq(value, zero) /\ DLess(zero, range.upper)
               THEN (IF ~reversed THEN XAdd(bottom, far) ELSE XSub(top, far))
          ELSE IF ~reversed
               THEN XSub(bottom, XMul(XDiv(baseLog(XDiv(value, range.lower)),
                                           baseLog(XDiv(range.upper, range.lower))), h))
               ELSE XSub(bottom, XMul(XDiv(baseLog(XDiv(range.upper, value)),
                                           baseLog(XDiv(range.upper, range.lower))), h))

coordToPixelUnreversed(ax, value) == CoordToPixelWith(ax, value, FALSE)

coordToPixel(ax, value) == CoordToPixelWith(ax, value, ax.mRangeReversed)

\* pixelToCoord, with the reversed flag as reversed
PixelToCoordWith(ax, value, reversed) ==
  \* pow(x, y) of a power of ten x, for y that make the result a power of ten
  \* again, and for the IEEE values of y
  LET pow(x, y) ==
        LET mag == baseLog(x).n
            prod == DMul(DInt(mag), y)
        IN CASE y.k = "nan" -> NaN
             [] y.k # "fin" /\ y.k # "nan" ->
                  IF mag = 0 THEN DInt(1)
                  ELSE IF (mag > 0) = (y.k = "pinf") THEN Inf(TRUE) ELSE DInt(0)
             [] y.k = "fin" /\ DEq(DInt(qRound(prod)), prod) -> Dbl(1, 1, qRound(prod))
  IN
  LET left == DInt(ax.mAxisRect.x1)
      bottom == DInt(ax.mAxisRect.y2)
      w == DInt(width(ax.mAxisRect))
      h == DInt(height(ax.mAxisRect))
      range == ax.mRange
      ratio == XDiv(range.upper, range.lower)
  IN IF ax.orientation = "Horizontal"
     THEN IF ax.mScaleType = "stLinear"
          THEN IF ~reversed
               THEN XAdd(XMul(XDiv(XSub(value, left), w), size(range)), range.lower)
               ELSE XAdd(XMul(XDiv(XNeg(XSub(value, left)), w), size(range)), range.upper)
          ELSE IF ~reversed
               THEN XMul(pow(ratio, XDiv(XSub(value, left), w)), range.lower)
               ELSE XMul(pow(ratio, XDiv(XSub(left, value), w)), range.upper)
     ELSE IF ax.mScaleType = "stLinear"
          THEN IF ~reversed
               THEN XAdd(XMul(XDiv(XSub(bottom, value), h), size(range)), range.lower)
               ELSE XAdd(XMul(XDiv(XNeg(XSub(bottom, value)), h), size(range)), range.upper)
          ELSE IF ~reversed
               THEN XMul(pow(ratio, XDiv(XSub(bottom, value), h)), range.lower)
               ELSE XMul(pow(ratio, XDiv(XSub(value, bottom), h)), range.upper)

pixelToCoordUnreversed(ax, value) == PixelToCoordWith(ax, value, FALSE)

pixelToCoord(ax, value) == PixelToCoordWith(ax, value, ax.mRangeReversed)

(***************************************************************************)
(* State.  The specifications share the variables; each leaves the         *)
(* variables of the others at their initial values.                        *)
(***************************************************************************)
VARIABLES
  inMaxSizes, inMinSizes, inStretchFactors, inTotalSize,  \* arguments of the solver call
  run,          \* SectionSizesRun of the arguments
  scaledRun,    \* the run with every stretch factor multiplied by scaledRun.by
  solverPc,     \* "args", "returned" or "scaled"
  mElements,              \* QCPLayoutGrid: rows of cells, per grid layout
  mRowStretchFactors,     \* QCPLayoutGrid, per grid layout
  mColumnStretchFactors,  \* QCPLayoutGrid, per grid layout
  mInsets,                \* QCPLayoutInset: the four lists, per inset layout
  mParentLayout,          \* QCPLayoutElement, per element
  mParentLayerable,       \* QCPLayerable, per element
  mVisible,               \* QCPLayerable, per element
  alive,                  \* the elements not yet deleted
  crashed,                \* the process died in an operation with undefined behaviour
  mChildren,              \* QCPLayer, per layer
  mLayer,                 \* QCPLayerable, per layerable
  mParentPlot,            \* QCPLayerable, per layerable
  layers,                 \* the layers that exist
  layerables,             \* the layerables that exist
  mOuterRect,             \* QCPLayoutElement, per element
  mRect,                  \* QCPLayoutElement, per element
  mMargins,               \* QCPLayoutElement, per element
  mMinimumMargins,        \* QCPLayoutElement, per element
  mMinimumSize,           \* QCPLayoutElement, per element
  mMaximumSize,           \* QCPLayoutElement, per element
  mColumnSpacing,         \* QCPLayoutGrid, per grid layout
  mRowSpacing,            \* QCPLayoutGrid, per grid layout
  mAutoMargins,           \* QCPLayoutElement, per element: the set of automatic sides
  mMarginGroups,          \* QCPLayoutElement, per element and side: the group or Null
  mGroupChildren,         \* QCPMarginGroup::mChildren, per margin group and side
  groups,                 \* the margin groups that exist
  updated,                \* the elements update() has run on since the last other call
  mRange,                 \* QCPAxis: lower and upper
  mRangeReversed,         \* QCPAxis
  mScaleType,             \* QCPAxis: "stLinear" or "stLogarithmic"
  orientation,            \* QCPAxis: "Horizontal" or "Vertical"
  mAxisRect,              \* QCPAxis: the rect of the axis rect the axis belongs to
  mCachedMarginValid,     \* QCPAxis
  mTickStep,              \* QCPAxis
  mAutoTickStep,          \* QCPAxis
  mAutoTickCount,         \* QCPAxis
  mTickVector,            \* QCPAxis
  marginParts,            \* QCPAxis: mVisible, mTicks, mTickLengthOut, mSubTickLengthOut,
                          \* mTickLabels, mTickLabelPadding, mLabel, mLabelPadding, mPadding
                          \* and mCachedMargin
  emitted,                \* the signals the last call on the axis emitted
  axisCall,               \* the last call on the axis or on QCPRange and what it returned
  call                    \* the last call on a layout or layerable and what it returned;
                          \* of a take or remove that failed, only the layout is kept

solverVars == <<inMaxSizes, inMinSizes, inStretchFactors, inTotalSize, run, scaledRun,
                solverPc>>

gridVars == <<mElements, mRowStretchFactors, mColumnStretchFactors, mInsets,
              mParentLayout, mParentLayerable, alive>>

heapVars == <<gridVars, crashed>>

layerVars == <<mChildren, mLayer, mParentPlot, layers, layerables>>

layoutVars == <<heapVars, mVisible, call>>

marginVars == <<mOuterRect, mRect, mMargins, mMinimumMargins, mMinimumSize, mMaximumSize,
                mColumnSpacing, mRowSpacing, mAutoMargins, mMarginGroups, mGroupChildren,
                groups, updated>>

axisVars == <<mRange, mRangeReversed, mScaleType, orientation, mAxisRect, mCachedMarginValid,
              mTickStep, mAutoTickStep, mAutoTickCount, mTickVector, marginParts, emitted,
              axisCall>>

vars == <<solverVars, layoutVars, layerVars, marginVars, axisVars>>

(***************************************************************************)
(* SolverSpec: getSectionSizes on bounded arguments.                       *)
(***************************************************************************)
MaxSections == 2
MaxSize     == 3
MaxTotal    == 6

NoRun == [result |-> <<>>, innerExceeded |-> FALSE, outerExceeded |-> FALSE,
          innerCut |-> FALSE, outerCut |-> FALSE]

\* the elements as their constructor leaves them; the margin groups in gs exist
MarginInit(gs) ==
  /\ mOuterRect = [x \in ElementIds |-> QRect(0, 0, 0, 0)]
  /\ mRect = [x \in ElementIds |-> QRect(0, 0, 0, 0)]
  /\ mMargins = [x \in ElementIds |-> QMargins(0, 0, 0, 0)]
  /\ mMinimumMargins = [x \in ElementIds |-> QMargins(0, 0, 0, 0)]
  /\ mMinimumSize = [x \in ElementIds |-> QSize(0, 0)]
  /\ mMaximumSize = [x \in ElementIds |-> QSize(QWIDGETSIZE_MAX, QWIDGETSIZE_MAX)]
  /\ mColumnSpacing = [g \in Layouts |-> 5]
  /\ mRowSpacing = [g \in Layouts |-> 5]
  /\ mAutoMargins = [x \in ElementIds |-> msAll]
  /\ mMarginGroups = [x \in ElementIds |-> [side \in msAll |-> Null]]
  /\ mGroupChildren = [group \in MarginGroupIds |-> [side \in msAll |-> <<>>]]
  /\ groups = gs
  /\ updated = {}

NoAxisCall == [op |-> "none", value |-> DInt(0), arg |-> QCPRange(DInt(0), DInt(0)),
               ret |-> DInt(0), ok |-> FALSE, from |-> <<>>]

\* what the constructors of QCPLayerable and QCPAxis give the fields that
\* calculateMargin reads and writes
MarginParts == [mVisible |-> TRUE, mTicks |-> TRUE, mTickLengthOut |-> 0,
                mSubTickLengthOut |-> 0, mTickLabels |-> TRUE, mTickLabelPadding |-> 0,
                mLabel |-> "", mLabelPadding |-> 0, mPadding |-> 5, mCachedMargin |-> 0]

\* the axis as its constructor leaves it, in an axis rect that was not laid out yet
AxisIdle ==
  /\ mRange = QCPRange(DInt(0), DInt(5))
  /\ mRangeReversed = FALSE
  /\ mScaleType = "stLinear"
  /\ orientation = "Horizontal"
  /\ mAxisRect = QRect(0, 0, 0, 0)
  /\ mCachedMarginValid = FALSE
  /\ mTickStep = DInt(1)
  /\ mAutoTickStep = TRUE
  /\ mAutoTickCount = 6
  /\ mTickVector = <<>>
  /\ marginParts = MarginParts
  /\ emitted = <<>>
  /\ axisCall = NoAxisCall

SolverIdle ==
  /\ inMaxSizes = <<>> /\ inMinSizes = <<>> /\ inStretchFactors = <<>>
  /\ inTotalSize = 0
  /\ run = NoRun
  /\ scaledRun = [by |-> DInt(1), run |-> NoRun]
  /\ solverPc = "idle"

NoCall == [op |-> "none", g |-> Null, row |-> 0, column |-> 0, index |-> 0,
           el |-> Null, layer |-> Null, ret |-> Null]

\* no layerable exists; the layers in ls exist and are empty
LayerInit(ls) ==
  /\ mChildren = [L \in LayerIds |-> <<>>]
  /\ mLayer = [x \in LayerableIds |-> Null]
  /\ mParentPlot = [x \in LayerableIds |-> Null]
  /\ layers = ls
  /\ layerables = {}

\* the elements in objs have been constructed, each outside every layout
LayoutInit(objs) ==
  /\ mElements = [g \in Layouts |-> <<>>]
  /\ mRowStretchFactors = [g \in Layouts |-> <<>>]
  /\ mColumnStretchFactors = [g \in Layouts |-> <<>>]
  /\ mInsets = [i \in Insets |-> NoInsets]
  /\ mParentLayout = [x \in ElementIds |-> Null]
  /\ mParentLayerable = [x \in ElementIds |-> Null]
  /\ mVisible = [x \in ElementIds |-> TRUE]
  /\ alive = objs
  /\ crashed = FALSE
  /\ call = NoCall

\* the elements in objs and the margin groups in gs have been constructed, and
\* one axis
Constructed(objs, gs) ==
  SolverIdle /\ LayerInit({}) /\ MarginInit(gs) /\ AxisIdle /\ LayoutInit(objs)

SolverInit ==
  \* stretch factors: a small rational times a decimal exponent every section shares
  LET StretchMantissas == {<<1, 1>>, <<2, 1>>, <<1, 2>>}
  IN
  /\ LayoutInit({})
  /\ LayerInit({})
  /\ MarginInit({}) /\ AxisIdle
  /\ \E n \in 1..MaxSections :
       /\ inMaxSizes \in [1..n -> 0..MaxSize]
       /\ inMinSizes \in [1..n -> 0..MaxSize]
       /\ \A i \in 1..n : inMinSizes[i] <= inMaxSizes[i]
       /\ \E e \in {0, -12} :
            inStretchFactors \in [1..n -> {Dbl(m[1], m[2], e) : m \in StretchMantissas}]
  /\ inTotalSize \in 0..MaxTotal
  /\ run = NoRun
  /\ scaledRun = [by |-> DInt(1), run |-> NoRun]
  /\ solverPc = "args"

SolverNext ==
  LET ScaleFactors     == {Dbl(2, 1, 0), Dbl(1, 3, 0), Dbl(1, 1, -12)}
      CallGetSectionSizes ==
        /\ solverPc = "args"
        /\ run' = SectionSizesRun(inMaxSizes, inMinSizes, inStretchFactors, inTotalSize)
        /\ solverPc' = "returned"
        /\ UNCHANGED <<inMaxSizes, inMinSizes, inStretchFactors, inTotalSize, scaledRun>>
        /\ UNCHANGED <<layoutVars, layerVars, marginVars, axisVars>>
  IN
  \* the same call with all stretch factors multiplied by k
  LET CallScaled(k) ==
        /\ solverPc = "returned"
        /\ \A i \in 1..Len(inStretchFactors) : inStretchFactors[i].e + k.e \in {0, -12}
        /\ scaledRun' =
             [by  |-> k,
              run |-> SectionSizesRun(inMaxSizes, inMinSizes,
                        [i \in 1..Len(inStretchFactors) |-> DMul(inStretchFactors[i], k)],
                        inTotalSize)]
        /\ solverPc' = "scaled"
        /\ UNCHANGED <<inMaxSizes, inMinSizes, inStretchFactors, inTotalSize, run>>
        /\ UNCHANGED <<layoutVars, layerVars, marginVars, axisVars>>
  IN
  \/ CallGetSectionSizes
  \/ \E k \in ScaleFactors : CallScaled(k)

SolverSpec == SolverInit /\ [][SolverNext]_vars

\* the same, on arguments whose maximums can absorb the total
SolverFeasibleInit == SolverInit /\ inTotalSize <= SumInts(inMaxSizes)

SolverFeasibleSpec == SolverFeasibleInit /\ [][SolverNext]_vars

\* C1: with 0 <= minSizes[i] <= maxSizes[i], positive stretch factors and
\* sum(minSizes) <= totalSize, every returned size lies in
\* [minSizes[i], maxSizes[i]].
C1_SizesWithinBounds ==
  (solverPc \in {"returned", "scaled"} /\ SumInts(inMinSizes) <= inTotalSize)
    => \A i \in 1..Len(inStretchFactors) :
         inMinSizes[i] <= run.result[i] /\ run.result[i] <= inMaxSizes[i]

\* C2: the sum of the returned sizes differs from totalSize by at most
\* sectionCount/2.
C2_SumWithinRounding ==
  solverPc \in {"returned", "scaled"} =>
    LET sectionCount == Len(inStretchFactors)
        difference == SumInts(run.result) - inTotalSize
    IN 2 * difference <= sectionCount /\ -2 * difference <= sectionCount

\* C3: multiplying all stretch factors by one positive constant leaves the
\* returned vector unchanged.
C3_ScaleInvariant ==
  solverPc = "scaled" => scaledRun.run.result = run.result


\* C22: when all minSizes are 0 and sum(maxSizes) >= totalSize, the result
\* is the rounded water-filling allocation: there is a level t such that
\* result[i] = round(min(maxSizes[i], t*stretch[i])), and the unrounded sizes
\* add up to totalSize.  The sections at their maximum are the set capped;
\* the others share what is left in proportion to their stretch factors.
C22_WaterFilling ==
  (/\ solverPc \in {"returned", "scaled"}
   /\ \A i \in 1..Len(inMinSizes) : inMinSizes[i] = 0
   /\ SumInts(inMaxSizes) >= inTotalSize)
  => LET n == Len(inStretchFactors)
         MaxSum[i \in 0..n] ==
           [capped \in SUBSET (1..n) |->
              IF i = 0 THEN 0
              ELSE MaxSum[i - 1][capped] + (IF i \in capped THEN inMaxSizes[i] ELSE 0)]
         StretchSum[i \in 0..n] ==
           [capped \in SUBSET (1..n) |->
              IF i = 0 THEN DInt(0)
              ELSE DAdd(StretchSum[i - 1][capped],
                        IF i \in capped THEN DInt(0) ELSE inStretchFactors[i])]
     IN \E capped \in SUBSET (1..n) :
          IF capped = 1..n
          THEN /\ MaxSum[n][capped] = inTotalSize
               /\ run.result = inMaxSizes
          ELSE LET t == DDiv(DInt(inTotalSize - MaxSum[n][capped]), StretchSum[n][capped])
                   share(i) == DMul(t, inStretchFactors[i])
               IN /\ MaxSum[n][capped] <= inTotalSize
                  /\ \A i \in capped : ~DLess(share(i), DInt(inMaxSizes[i]))
                  /\ \A i \in (1..n) \ capped : ~DLess(DInt(inMaxSizes[i]), share(i))
                  /\ \A i \in 1..n :
                       run.result[i] = IF i \in capped THEN inMaxSizes[i]
                                       ELSE qRound(share(i))

\* C23: with equal-length non-empty vectors, strictly positive stretch factors
\* and minSizes[i] <= maxSizes[i], the inner and the outer loop end because
\* no section is unfinished, never because an iteration counter reached
\* 2*sectionCount.
C23_FailSafeDead ==
  solverPc \in {"returned", "scaled"} => (~run.innerCut /\ ~run.outerCut)


(***************************************************************************)
(* Operations on grid layouts and their elements.                          *)
(***************************************************************************)
MaxDim == 2

Heap == [mElements |-> mElements,
         mRowStretchFactors |-> mRowStretchFactors,
         mColumnStretchFactors |-> mColumnStretchFactors,
         mInsets |-> mInsets,
         mParentLayout |-> mParentLayout,
         mParentLayerable |-> mParentLayerable,
         alive |-> alive,
         dying |-> {},
         ub |-> "crash",
         crashed |-> crashed]

SetHeap(h) ==
  /\ mElements' = h.mElements
  /\ mRowStretchFactors' = h.mRowStretchFactors
  /\ mColumnStretchFactors' = h.mColumnStretchFactors
  /\ mInsets' = h.mInsets
  /\ mParentLayout' = h.mParentLayout
  /\ mParentLayerable' = h.mParentLayerable
  /\ alive' = h.alive
  /\ crashed' = h.crashed

\* a call on layout g can be made while the process and g exist
Callable(g) == ~crashed /\ g \in alive

Bool(b) == IF b THEN "true" ELSE "false"

AddElement(g, row, column, el, ub) ==
  /\ Callable(g)
  /\ el \in alive \cup {Null}
  /\ LET r == addElement([Heap EXCEPT !.ub = ub], g, row, column, el)
     IN /\ SetHeap(r.h)
        /\ call' = [NoCall EXCEPT !.op = "addElement", !.g = g, !.row = row,
                                  !.column = column, !.el = el,
                                  !.ret = IF r.h.crashed THEN "crashed" ELSE Bool(r.ret)]
  /\ UNCHANGED <<mVisible, solverVars, marginVars, axisVars, layerVars>>

TakeAt(g, index) ==
  /\ Callable(g)
  /\ LET r == takeAt(Heap, g, index)
     IN /\ SetHeap(r.h)
        /\ call' = [NoCall EXCEPT !.op = "takeAt", !.g = g, !.el = r.ret, !.ret = r.ret,
                                  !.index = IF r.ret # Null THEN index ELSE -1]
  /\ UNCHANGED <<mVisible, solverVars, marginVars, axisVars, layerVars>>

\* call.index records the cell the element was found in
Take(g, el) ==
  /\ Callable(g)
  /\ el \in alive \cup {Null}
  /\ LET r == take(Heap, g, el)
         found == {i \in 0..(elementCount(Heap, g) - 1) : elementAt(Heap, g, i) = el}
     IN /\ SetHeap(r.h)
        /\ call' = [NoCall EXCEPT !.op = "take", !.g = g, !.ret = Bool(r.ret),
                      !.el = IF r.ret THEN el ELSE Null,
                      !.index = IF r.ret THEN CHOOSE i \in found : \A j \in found : i <= j
                                ELSE -1]
  /\ UNCHANGED <<mVisible, solverVars, marginVars, axisVars, layerVars>>

Simplify(g) ==
  /\ Callable(g)
  /\ SetHeap(simplify(Heap, g))
  /\ call' = [NoCall EXCEPT !.op = "simplify", !.g = g]
  /\ UNCHANGED <<mVisible, solverVars, marginVars, axisVars, layerVars>>


(***************************************************************************)
(* GridSpec: two grid layouts and a plain element; elements are added,     *)
(* taken and removed.                                                      *)
(***************************************************************************)
GridElements == {"e1", "g1", "g2"}

\* the calls on g1 with e1, g2 or no element; g2 takes e1 into its first cell
\* and gives it back
GridNext ==
  LET RemoveAtCall(g, index) ==
        /\ Callable(g)
        /\ LET r == removeAt(Heap, g, index)
           IN /\ SetHeap(r.h)
              /\ call' = [NoCall EXCEPT !.op = "removeAt", !.g = g, !.ret = Bool(r.ret),
                                        !.el = elementAt(Heap, g, index),
                                        !.index = IF r.ret THEN index ELSE -1]
        /\ UNCHANGED <<mVisible, solverVars, marginVars, axisVars, layerVars>>
  IN
  \/ \E row \in -1..(MaxDim - 1), column \in -1..(MaxDim - 1), el \in {"e1", "g2"} :
       \E ub \in IF row < 0 \/ column < 0 THEN {"crash", "continue"} ELSE {"continue"} :
         AddElement("g1", row, column, el, ub)
  \/ AddElement("g1", 0, 0, Null, "continue")
  \/ AddElement("g2", 0, 0, "e1", "continue")
  \/ \E index \in -1..(MaxDim * MaxDim) : TakeAt("g1", index)
  \/ \E g \in Layouts, el \in {"e1", "g2", Null} : Take(g, el)
  \/ \E index \in -1..(MaxDim * MaxDim) : RemoveAtCall("g1", index)

GridSpec == Constructed(GridElements, {}) /\ [][GridNext]_vars


\* C4: whenever addElement(r,c,e) returns true, hasElement(r,c) is true and
\* element(r,c) is e right afterwards; whenever takeAt, take or removeAt
\* succeeds, the cell the element occupied is empty afterwards and the row and
\* column counts of the grid are what they were.
C4_Occupancy ==
  [][
  LET element(h, g, row, column) ==
        IF row >= 0 /\ row < Len(h.mElements[g])
        THEN IF column >= 0 /\ column < Len(h.mElements[g][1])
             THEN h.mElements[g][row + 1][column + 1]
             ELSE Null
        ELSE Null
  IN
     /\ (call'.op = "addElement" /\ call'.ret = "true") =>
          /\ hasElement(Heap', call'.g, call'.row, call'.column)
          /\ element(Heap', call'.g, call'.row, call'.column) = call'.el
     /\ (call'.op \in {"takeAt", "take", "removeAt"} /\ call'.index >= 0) =>
          /\ elementAt(Heap', call'.g, call'.index) = Null
          /\ rowCount(Heap', call'.g) = rowCount(Heap, call'.g)
          /\ columnCount(Heap', call'.g) = columnCount(Heap, call'.g)
  ]_vars

\* C5: addElement(r,c,e) on an occupied cell returns false and changes
\* nothing: not the grid's dimensions, cells or stretch factors, and not the
\* parent layout or slot of e, also when e sits in another layout.
C5_OccupiedCellRejected ==
  [][(call'.op = "addElement" /\ hasElement(Heap, call'.g, call'.row, call'.column))
       => (call'.ret = "false" /\ UNCHANGED <<heapVars, mVisible>>)]_vars

\* addElement was refused on an occupied cell for an element of another layout
C5_Witness ==
  /\ call.op = "addElement" /\ call.ret = "false" /\ call.el # Null
  /\ hasElement(Heap, call.g, call.row, call.column)
  /\ mParentLayout[call.el] \notin {Null, call.g}
  /\ \E i \in 0..(elementCount(Heap, mParentLayout[call.el]) - 1) :
       elementAt(Heap, mParentLayout[call.el], i) = call.el


(***************************************************************************)
(* SimplifySpec: simplify() called on a grid g1 of any shape up to         *)
(* MaxSimplifyDim rows and columns with e1 and e2 in any cells.  The start *)
(* states are built from the empty grid by expandTo, addElement and        *)
(* setRowStretchFactors, setColumnStretchFactors; row and column i have    *)
(* the stretch factor i, so that every row and column has its own.         *)
(***************************************************************************)
MaxSimplifyDim == 3

SimplifyInit ==
  LET NoCell == <<0, 0>>
  IN
  /\ SolverIdle
  /\ MarginInit({}) /\ AxisIdle
  /\ LayerInit({})
  /\ \E rows \in 0..MaxSimplifyDim :
       \E columns \in IF rows = 0 THEN {0} ELSE 0..MaxSimplifyDim :
         \E at1, at2 \in ((1..rows) \X (1..columns)) \cup {NoCell} :
           /\ at1 # at2 \/ at1 = NoCell
           /\ mElements =
                [g \in Layouts |->
                   IF g = "g1"
                   THEN [r \in 1..rows |->
                           [c \in 1..columns |->
                              IF <<r, c>> = at1 THEN "e1"
                              ELSE IF <<r, c>> = at2 THEN "e2" ELSE Null]]
                   ELSE <<>>]
           /\ mRowStretchFactors =
                [g \in Layouts |-> IF g = "g1" THEN [r \in 1..rows |-> r] ELSE <<>>]
           /\ mColumnStretchFactors =
                [g \in Layouts |-> IF g = "g1" THEN [c \in 1..columns |-> c] ELSE <<>>]
           /\ mInsets = [i \in Insets |-> NoInsets]
           /\ mParentLayout =
                [x \in ElementIds |-> IF \/ x = "e1" /\ at1 # NoCell
                                         \/ x = "e2" /\ at2 # NoCell
                                      THEN "g1" ELSE Null]
           /\ mParentLayerable = mParentLayout
  /\ mVisible = [x \in ElementIds |-> TRUE]
  /\ alive = {"g1", "e1", "e2"}
  /\ crashed = FALSE
  /\ call = NoCall

SimplifyNext == Simplify("g1")

SimplifySpec == SimplifyInit /\ [][SimplifyNext]_vars

\* C6: simplify() removes exactly the rows and columns without an element:
\* what remains is the grid of the occupied rows and columns in their order,
\* with every element in it, and the stretch factor of each remaining row and
\* column is the one it had.
C6_SimplifyExact ==
  [][
  \* the entries of list at the positions in keep, in their order
  LET Sub(list, keep) ==
        LET F[i \in 0..Len(list)] ==
              IF i = 0 THEN <<>>
              ELSE IF i \in keep THEN Append(F[i - 1], list[i]) ELSE F[i - 1]
        IN F[Len(list)]
  IN
  LET OccupiedRows(cells) ==
        {r \in 1..Len(cells) : \E c \in 1..Len(cells[r]) : cells[r][c] # Null}
      OccupiedColumns(cells) ==
        {c \in 1..(IF cells = <<>> THEN 0 ELSE Len(cells[1])) :
           \E r \in 1..Len(cells) : cells[r][c] # Null}
  IN
     call'.op = "simplify" =>
       LET g    == call'.g
           rows == OccupiedRows(mElements[g])
           cols == OccupiedColumns(mElements[g])
       IN /\ mElements'[g] =
               Sub([r \in 1..Len(mElements[g]) |-> Sub(mElements[g][r], cols)], rows)
          /\ SubSeq(mRowStretchFactors'[g], 1, Cardinality(rows)) =
               Sub(mRowStretchFactors[g], rows)
          /\ SubSeq(mColumnStretchFactors'[g], 1, Cardinality(cols)) =
               SubSeq(Sub(mColumnStretchFactors[g], cols), 1, Cardinality(cols))
          /\ Len(mRowStretchFactors'[g]) >= Cardinality(rows)
          /\ Len(mColumnStretchFactors'[g]) >= Cardinality(cols)
          /\ \A x \in DOMAIN mElements : x # g => mElements'[x] = mElements[x]
          /\ UNCHANGED <<mParentLayout, mParentLayerable, alive, mVisible>>
  ]_vars

\* simplify() has removed the empty second row and second column of a
\* grid with three rows and three columns
C6_Witness ==
  /\ call.op = "simplify"
  /\ mElements["g1"] = <<<<"e1", Null>>, <<Null, "e2">>>>
  /\ mRowStretchFactors["g1"] = <<1, 3>>
  /\ mColumnStretchFactors["g1"] = <<1, 3>>


(***************************************************************************)
(* StretchSpec: one grid g1 and one element e1, from the empty grid, under *)
(* every operation that changes the grid's shape or stretch factors.  Rows *)
(* and columns are named by valid (non-negative) indices in addElement.    *)
(***************************************************************************)

StretchNext ==
  \* QList::insert(i, x), i in 0..size
  LET InsertAt(list, i, x) == SubSeq(list, 1, i) \o <<x>> \o SubSeq(list, i + 1, Len(list))
  IN
  LET setColumnStretchFactor(h, g, column, factor) ==
        IF column >= 0 /\ column < columnCount(h, g)
        THEN IF factor > 0
             THEN [h EXCEPT !.mColumnStretchFactors[g][column + 1] = factor]
             ELSE h
        ELSE h
      setColumnStretchFactors(h, g, factors) ==
        IF Len(factors) = Len(h.mColumnStretchFactors[g])
        THEN [h EXCEPT !.mColumnStretchFactors[g] =
                [i \in 1..Len(factors) |-> IF factors[i] <= 0 THEN 1 ELSE factors[i]]]
        ELSE h
      setRowStretchFactor(h, g, row, factor) ==
        IF row >= 0 /\ row < rowCount(h, g)
        THEN IF factor > 0
             THEN [h EXCEPT !.mRowStretchFactors[g][row + 1] = factor]
             ELSE h
        ELSE h
      setRowStretchFactors(h, g, factors) ==
        IF Len(factors) = Len(h.mRowStretchFactors[g])
        THEN [h EXCEPT !.mRowStretchFactors[g] =
                [i \in 1..Len(factors) |-> IF factors[i] <= 0 THEN 1 ELSE factors[i]]]
        ELSE h
      insertRow(h, g, newIndex) ==
        IF h.mElements[g] = <<>> \/ h.mElements[g][1] = <<>>
        THEN expandTo(h, g, 1, 1)
        ELSE LET idx == IF newIndex < 0 THEN 0
                        ELSE IF newIndex > rowCount(h, g) THEN rowCount(h, g) ELSE newIndex
                 newRow == [col \in 1..columnCount(h, g) |-> Null]
             IN [h EXCEPT !.mRowStretchFactors[g] = InsertAt(@, idx, 1),
                          !.mElements[g] = InsertAt(@, idx, newRow)]
      insertColumn(h, g, newIndex) ==
        IF h.mElements[g] = <<>> \/ h.mElements[g][1] = <<>>
        THEN expandTo(h, g, 1, 1)
        ELSE LET idx == IF newIndex < 0 THEN 0
                        ELSE IF newIndex > columnCount(h, g) THEN columnCount(h, g)
                        ELSE newIndex
             IN [h EXCEPT !.mColumnStretchFactors[g] = InsertAt(@, idx, 1),
                          !.mElements[g] = [row \in 1..Len(@) |-> InsertAt(@[row], idx, Null)]]
      ExpandTo(g, newRowCount, newColumnCount) ==
        /\ Callable(g)
        /\ SetHeap(expandTo(Heap, g, newRowCount, newColumnCount))
        /\ call' = [NoCall EXCEPT !.op = "expandTo", !.g = g, !.row = newRowCount,
                                  !.column = newColumnCount]
        /\ UNCHANGED <<mVisible, solverVars, marginVars, axisVars, layerVars>>
      InsertRow(g, newIndex) ==
        /\ Callable(g)
        /\ rowCount(Heap, g) < MaxDim
        /\ SetHeap(insertRow(Heap, g, newIndex))
        /\ call' = [NoCall EXCEPT !.op = "insertRow", !.g = g, !.index = newIndex]
        /\ UNCHANGED <<mVisible, solverVars, marginVars, axisVars, layerVars>>
      InsertColumn(g, newIndex) ==
        /\ Callable(g)
        /\ Len(mColumnStretchFactors[g]) < MaxDim
        /\ SetHeap(insertColumn(Heap, g, newIndex))
        /\ call' = [NoCall EXCEPT !.op = "insertColumn", !.g = g, !.index = newIndex]
        /\ UNCHANGED <<mVisible, solverVars, marginVars, axisVars, layerVars>>
      SetColumnStretchFactor(g, column, factor) ==
        /\ Callable(g)
        /\ SetHeap(setColumnStretchFactor(Heap, g, column, factor))
        /\ call' = [NoCall EXCEPT !.op = "setColumnStretchFactor", !.g = g, !.column = column]
        /\ UNCHANGED <<mVisible, solverVars, marginVars, axisVars, layerVars>>
      SetColumnStretchFactors(g, factors) ==
        /\ Callable(g)
        /\ SetHeap(setColumnStretchFactors(Heap, g, factors))
        /\ call' = [NoCall EXCEPT !.op = "setColumnStretchFactors", !.g = g]
        /\ UNCHANGED <<mVisible, solverVars, marginVars, axisVars, layerVars>>
      SetRowStretchFactor(g, row, factor) ==
        /\ Callable(g)
        /\ SetHeap(setRowStretchFactor(Heap, g, row, factor))
        /\ call' = [NoCall EXCEPT !.op = "setRowStretchFactor", !.g = g, !.row = row]
        /\ UNCHANGED <<mVisible, solverVars, marginVars, axisVars, layerVars>>
      SetRowStretchFactors(g, factors) ==
        /\ Callable(g)
        /\ SetHeap(setRowStretchFactors(Heap, g, factors))
        /\ call' = [NoCall EXCEPT !.op = "setRowStretchFactors", !.g = g]
        /\ UNCHANGED <<mVisible, solverVars, marginVars, axisVars, layerVars>>
      FactorInputs == {0, 1, 2}
      FactorLists == UNION {[1..n -> {0, 2}] : n \in 0..MaxDim}
  IN
  \/ \E row \in 0..(MaxDim - 1), column \in 0..(MaxDim - 1), el \in {"e1", Null} :
       AddElement("g1", row, column, el, "continue")
  \/ \E newRowCount \in 0..MaxDim, newColumnCount \in 0..MaxDim :
       ExpandTo("g1", newRowCount, newColumnCount)
  \/ \E newIndex \in -1..MaxDim : InsertRow("g1", newIndex)
  \/ \E newIndex \in -1..MaxDim : InsertColumn("g1", newIndex)
  \/ \E index \in -1..(MaxDim * MaxDim) : TakeAt("g1", index)
  \/ \E el \in {"e1", Null} : Take("g1", el)
  \/ Simplify("g1")
  \/ \E column \in -1..MaxDim, factor \in FactorInputs :
       SetColumnStretchFactor("g1", column, factor)
  \/ \E factors \in FactorLists : SetColumnStretchFactors("g1", factors)
  \/ \E row \in -1..MaxDim, factor \in FactorInputs :
       SetRowStretchFactor("g1", row, factor)
  \/ \E factors \in FactorLists : SetRowStretchFactors("g1", factors)

StretchSpec == Constructed({"g1", "e1"}, {}) /\ [][StretchNext]_vars

\* C7: after any sequence of addElement, expandTo, insertRow, insertColumn,
\* takeAt, take, simplify and the stretch factor setters, all rows of a grid
\* have the same length, there are rowCount row stretch factors and
\* columnCount column stretch factors, and every stretch factor is positive.
C7_GridStructure ==
  LET Rectangular(g) ==
        \A r \in 1..Len(mElements[g]) : Len(mElements[g][r]) = Len(mElements[g][1])
      RowFactorsMatch(g) == Len(mRowStretchFactors[g]) = rowCount(Heap, g)
      ColumnFactorsMatch(g) == Len(mColumnStretchFactors[g]) = columnCount(Heap, g)
      FactorsPositive(g) ==
        /\ \A i \in 1..Len(mRowStretchFactors[g]) : mRowStretchFactors[g][i] > 0
        /\ \A i \in 1..Len(mColumnStretchFactors[g]) : mColumnStretchFactors[g][i] > 0
  IN
  \A g \in Layouts \cap alive :
    Rectangular(g) /\ RowFactorsMatch(g) /\ ColumnFactorsMatch(g) /\ FactorsPositive(g)


(***************************************************************************)
(* VisSpec: two grid layouts and a plain element; the first cell of each   *)
(* layout adopts and releases elements, visible flags are set and          *)
(* realVisibility() is asked.                                              *)
(***************************************************************************)
VisNext ==
  \* QCPLayerable::realVisibility; a chain of visible layerables longer than
  \* the number of layerables is a cycle, on which the recursion never returns
  LET RECURSIVE RealVisibilityFrom(_, _, _, _)
      RealVisibilityFrom(visible, parentLayerable, x, depth) ==
        IF ~visible[x] THEN "false"
        ELSE IF parentLayerable[x] = Null THEN "true"
        ELSE IF depth = 0 THEN "no return"
        ELSE RealVisibilityFrom(visible, parentLayerable, parentLayerable[x], depth - 1)
  IN
  LET realVisibility(visible, parentLayerable, x) ==
        RealVisibilityFrom(visible, parentLayerable, x, Cardinality(DOMAIN visible))
  IN
  \* QCPLayerable::setVisible
  LET SetVisible(x, on) ==
        /\ ~crashed /\ x \in alive
        /\ mVisible' = [mVisible EXCEPT ![x] = on]
        /\ call' = [NoCall EXCEPT !.op = "setVisible", !.el = x]
        /\ UNCHANGED <<heapVars, solverVars, marginVars, axisVars, layerVars>>
  IN
  \* QCPLayerable::realVisibility() const, called on x; a recursion that never
  \* returns ends the process
  LET RealVisibility(x) ==
        /\ ~crashed /\ x \in alive
        /\ LET r == realVisibility(mVisible, mParentLayerable, x)
           IN /\ call' = [NoCall EXCEPT !.op = "realVisibility", !.el = x, !.ret = r]
              /\ crashed' = (r = "no return")
        /\ UNCHANGED <<gridVars, mVisible, solverVars, marginVars, axisVars, layerVars>>
  IN
  \/ \E x \in GridElements, on \in BOOLEAN : SetVisible(x, on)
  \/ \E g \in Layouts, el \in GridElements : AddElement(g, 0, 0, el, "continue")
  \/ \E g \in Layouts : TakeAt(g, 0)
  \/ \E g \in Layouts, el \in GridElements : Take(g, el)
  \/ \E x \in GridElements : RealVisibility(x)

VisSpec == Constructed(GridElements, {}) /\ [][VisNext]_vars

\* C8: in every state reached by setVisible and by the adopt and release
\* operations of layouts, realVisibility() of a layerable returns true if and
\* only if the visible flags of the layerable and of every layerable above it
\* along parentLayerable are true; and the query changes no state.
C8_RealVisibility ==
  [][
  \* x and the layerables above it along parentLayerable
  LET ParentChain(x) ==
        LET F[n \in 0..Cardinality(ElementIds)] ==
              IF n = 0 THEN {x}
              ELSE F[n - 1] \cup ({mParentLayerable[y] : y \in F[n - 1]} \ {Null})
        IN F[Cardinality(ElementIds)]
  IN
     call'.op = "realVisibility" =>
       /\ call'.ret = Bool(\A a \in ParentChain(call'.el) : mVisible[a])
       /\ UNCHANGED <<heapVars, mVisible>>
  ]_vars


(***************************************************************************)
(* LayerSpec: layers L1 and L2 of plot p1, layer L3 of plot p2 and three   *)
(* layerables.  Layerables and layers are constructed and destroyed and    *)
(* layerables are moved between layers.  The plot is the environment: its  *)
(* layer(name) and currentLayer() answer with an existing layer or with 0. *)
(***************************************************************************)

LayerSpecInit ==
  /\ SolverIdle
  /\ MarginInit({}) /\ AxisIdle
  /\ LayerInit(LayerIds)
  /\ mElements = [g \in Layouts |-> <<>>]
  /\ mRowStretchFactors = [g \in Layouts |-> <<>>]
  /\ mColumnStretchFactors = [g \in Layouts |-> <<>>]
  /\ mInsets = [i \in Insets |-> NoInsets]
  /\ mParentLayout = [x \in ElementIds |-> Null]
  /\ mParentLayerable = [x \in ElementIds |-> Null]
  /\ mVisible = [x \in ElementIds |-> TRUE]
  /\ alive = {}
  /\ crashed = FALSE
  /\ call = NoCall

\* layerables are made without a plot or in plot p1
LayerNext ==
  \* QCPLayer::mParentPlot, set by the constructor for good
  LET LayerPlot == [L \in LayerIds |-> IF L = "L3" THEN "p2" ELSE "p1"]
  IN
  \* returns the fields and the bool result
  LET moveToLayer(s, x, layer, prepend) ==
        IF layer # Null /\ s.mParentPlot[x] = Null
        THEN [s |-> s, ret |-> FALSE]
        ELSE IF layer # Null /\ LayerPlot[layer] # s.mParentPlot[x]
        THEN [s |-> s, ret |-> FALSE]
        ELSE LET s1 == IF s.mLayer[x] # Null THEN removeChild(s, s.mLayer[x], x) ELSE s
                 s2 == [s1 EXCEPT !.mLayer[x] = layer]
                 s3 == IF layer # Null THEN addChild(s2, layer, x, prepend) ELSE s2
             IN [s |-> s3, ret |-> TRUE]
  IN
  LET setLayer(s, x, layer) == moveToLayer(s, x, layer, FALSE)
  IN
  \* setLayer(const QString &); found is what mParentPlot->layer(layerName)
  \* answers: a layer, or Null
  LET setLayerByName(s, x, found) ==
        IF s.mParentPlot[x] = Null
        THEN [s |-> s, ret |-> FALSE]
        ELSE IF found # Null
        THEN setLayer(s, x, found)
        ELSE [s |-> s, ret |-> FALSE]
  IN
  \* the constructor; with a plot, answer is what mParentPlot->currentLayer()
  \* answers if targetLayer is empty, else what mParentPlot->layer(targetLayer)
  \* answers
  LET QCPLayerableNew(s, x, plot, targetLayerIsEmpty, answer) ==
        LET s0 == [s EXCEPT !.layerables = @ \cup {x},
                            !.mParentPlot[x] = plot,
                            !.mLayer[x] = Null]
        IN IF plot # Null
           THEN IF targetLayerIsEmpty
                THEN setLayer(s0, x, answer).s
                ELSE setLayerByName(s0, x, answer).s
           ELSE s0
  IN
  \* the destructor; the fields of a destroyed layerable read as initial
  LET QCPLayerableDelete(s, x) ==
        LET s1 == IF s.mLayer[x] # Null
                  THEN [removeChild(s, s.mLayer[x], x) EXCEPT !.mLayer[x] = Null]
                  ELSE s
        IN [s1 EXCEPT !.layerables = @ \ {x}, !.mParentPlot[x] = Null]
  IN
  LET initializeParentPlot(s, x, parentPlot) ==
        IF s.mParentPlot[x] # Null THEN s
        ELSE [s EXCEPT !.mParentPlot[x] = parentPlot]
  IN
  \* the loop of the destructor of a layer: while (!mChildren.isEmpty())
  \* mChildren.last()->setLayer(0); a pass that leaves the list as long as it
  \* was repeats for ever
  LET RECURSIVE DetachChildren(_, _)
      DetachChildren(s, layer) ==
        IF s.mChildren[layer] = <<>> THEN s
        ELSE LET last == s.mChildren[layer][Len(s.mChildren[layer])]
                 s1   == setLayer(s, last, Null).s
             IN IF Len(s1.mChildren[layer]) = Len(s.mChildren[layer])
                THEN [s1 EXCEPT !.crashed = TRUE]
                ELSE DetachChildren(s1, layer)
  IN
  LET QCPLayerDelete(s, layer) ==
        [DetachChildren(s, layer) EXCEPT !.layers = @ \ {layer}]
  IN
  \* the constructor of a layer
  LET QCPLayerNew(s, layer) ==
        [s EXCEPT !.layers = @ \cup {layer}, !.mChildren[layer] = <<>>]
  IN
  LET LayerState == [mChildren   |-> mChildren,
                     mLayer      |-> mLayer,
                     mParentPlot |-> mParentPlot,
                     layers      |-> layers,
                     layerables  |-> layerables,
                     crashed     |-> crashed]
      SetLayerState(s) ==
        /\ mChildren' = s.mChildren
        /\ mLayer' = s.mLayer
        /\ mParentPlot' = s.mParentPlot
        /\ layers' = s.layers
        /\ layerables' = s.layerables
        /\ crashed' = s.crashed
  IN
  \* 0-based position of x in list, -1 if x is not in it
  LET IndexOf(list, x) ==
        IF Contains(list, x) THEN (CHOOSE i \in 1..Len(list) : list[i] = x) - 1 ELSE -1
  IN
  LET NewLayerable(x, plot, targetLayerIsEmpty, answer) ==
        /\ ~crashed /\ x \notin layerables
        /\ answer \in layers \cup {Null}
        /\ SetLayerState(QCPLayerableNew(LayerState, x, plot, targetLayerIsEmpty, answer))
        /\ call' = [NoCall EXCEPT !.op = "new layerable", !.el = x]
        /\ UNCHANGED <<gridVars, mVisible, solverVars, marginVars, axisVars>>
      DeleteLayerable(x) ==
        /\ ~crashed /\ x \in layerables
        /\ SetLayerState(QCPLayerableDelete(LayerState, x))
        /\ call' = [NoCall EXCEPT !.op = "delete layerable", !.el = x]
        /\ UNCHANGED <<gridVars, mVisible, solverVars, marginVars, axisVars>>
  IN
  \* call.index is the place x had in the list of layer before the call
  LET SetLayer(x, layer) ==
        /\ ~crashed /\ x \in layerables
        /\ layer \in layers \cup {Null}
        /\ LET r == setLayer(LayerState, x, layer)
           IN /\ SetLayerState(r.s)
              /\ call' = IF r.ret
                         THEN [NoCall EXCEPT !.op = "setLayer", !.el = x, !.layer = layer,
                                 !.ret = "true",
                                 !.index = IF layer = Null THEN -1
                                           ELSE IndexOf(mChildren[layer], x)]
                         ELSE [NoCall EXCEPT !.op = "setLayer", !.ret = "false"]
        /\ UNCHANGED <<gridVars, mVisible, solverVars, marginVars, axisVars>>
  IN
  LET SetLayerByName(x, found) ==
        /\ ~crashed /\ x \in layerables
        /\ found \in layers \cup {Null}
        /\ LET r == setLayerByName(LayerState, x, found)
           IN /\ SetLayerState(r.s)
              /\ call' = IF r.ret
                         THEN [NoCall EXCEPT !.op = "setLayer", !.el = x, !.layer = found,
                                 !.ret = "true", !.index = IndexOf(mChildren[found], x)]
                         ELSE [NoCall EXCEPT !.op = "setLayer", !.ret = "false"]
        /\ UNCHANGED <<gridVars, mVisible, solverVars, marginVars, axisVars>>
      InitializeParentPlot(x, parentPlot) ==
        /\ ~crashed /\ x \in layerables
        /\ SetLayerState(initializeParentPlot(LayerState, x, parentPlot))
        /\ call' = [NoCall EXCEPT !.op = "initializeParentPlot", !.el = x]
        /\ UNCHANGED <<gridVars, mVisible, solverVars, marginVars, axisVars>>
      NewLayer(layer) ==
        /\ ~crashed /\ layer \notin layers
        /\ SetLayerState(QCPLayerNew(LayerState, layer))
        /\ call' = [NoCall EXCEPT !.op = "new layer", !.layer = layer]
        /\ UNCHANGED <<gridVars, mVisible, solverVars, marginVars, axisVars>>
  IN
  \* call.index is the number of children the layer had
  LET DeleteLayer(layer) ==
        /\ ~crashed /\ layer \in layers
        /\ SetLayerState(QCPLayerDelete(LayerState, layer))
        /\ call' = [NoCall EXCEPT !.op = "delete layer", !.layer = layer,
                                  !.index = Len(mChildren[layer])]
        /\ UNCHANGED <<gridVars, mVisible, solverVars, marginVars, axisVars>>
  IN
  \/ \E x \in LayerableIds, plot \in {Null, "p1"}, targetLayerIsEmpty \in BOOLEAN,
        answer \in LayerIds \cup {Null} :
       NewLayerable(x, plot, targetLayerIsEmpty, answer)
  \/ \E x \in LayerableIds : DeleteLayerable(x)
  \/ \E x \in LayerableIds, layer \in LayerIds \cup {Null} : SetLayer(x, layer)
  \/ \E x \in LayerableIds, found \in LayerIds \cup {Null} : SetLayerByName(x, found)
  \/ \E x \in LayerableIds : InitializeParentPlot(x, "p1")
  \/ \E layer \in LayerIds : NewLayer(layer)
  \/ \E layer \in LayerIds : DeleteLayer(layer)

LayerSpec == LayerSpecInit /\ [][LayerNext]_vars


Occurrences(list, x) == Cardinality({i \in 1..Len(list) : list[i] = x})

\* C9: after any sequence of constructions of layerables, setLayer by
\* pointer or by name or with 0, destructions of layerables and destructions
\* of layers, a layerable is in the child list of at most one layer and at
\* most once, it is in the list of layer L exactly if its mLayer is L, a
\* destroyed layerable is in no list and no layerable refers to a destroyed
\* layer.
C9_LayerMembership ==
  /\ \A x \in LayerableIds :
       /\ \A L \in layers : Occurrences(mChildren[L], x) <= 1
       /\ Cardinality({L \in layers : Contains(mChildren[L], x)}) <= 1
       /\ \A L \in layers :
            Contains(mChildren[L], x) <=> (x \in layerables /\ mLayer[x] = L)
  /\ \A x \in LayerableIds \ layerables, L \in layers : ~Contains(mChildren[L], x)
  /\ \A x \in layerables : mLayer[x] \in layers \cup {Null}

\* a layer with two children was destroyed: both are on no layer now, while
\* another layer has a child
C9_Witness ==
  /\ call.op = "delete layer" /\ call.index >= 2
  /\ Cardinality({x \in layerables : mParentPlot[x] # Null /\ mLayer[x] = Null}) >= 2
  /\ \E L \in layers : mChildren[L] # <<>>

\* C10: after a successful setLayer(L) the layerable is the last entry of the
\* child list of L, and the other children of L and the children of the
\* layer it left are in the order they were in; also when the layerable was
\* on L already.
C10_SetLayerOnTop ==
  [][
  \* list without x
  LET Without(list, x) == SelectSeq(list, LAMBDA y : y # x)
  IN
     (call'.op = "setLayer" /\ call'.ret = "true" /\ call'.layer # Null) =>
       /\ mChildren'[call'.layer] # <<>>
       /\ mChildren'[call'.layer][Len(mChildren'[call'.layer])] = call'.el
       /\ \A M \in LayerIds :
            Without(mChildren'[M], call'.el) = Without(mChildren[M], call'.el)
  ]_vars

\* setLayer(L) of the lowest of three layerables on L has put it on top
C10_Witness ==
  /\ call.op = "setLayer" /\ call.ret = "true" /\ call.layer # Null
  /\ call.index = 0
  /\ Len(mChildren[call.layer]) = 3
  /\ mChildren[call.layer][3] = call.el


(***************************************************************************)
(* OwnSpec: a grid layout g1, an inset layout i1 and two plain elements.   *)
(* Elements, and each layout as an element of the other, are added to and  *)
(* taken from both layouts.                                                *)
(***************************************************************************)

QRectF(x, y, w, h) == [x |-> x, y |-> y, width |-> w, height |-> h]

\* the body of both addElement overloads of QCPLayoutInset; alignment is the
\* set of flags
InsetAppend(h, i, el, placement, alignment, rect) ==
  IF el # Null
  THEN LET h1 == IF h.mParentLayout[el] # Null
                 THEN virtualTake(h, h.mParentLayout[el], el).h
                 ELSE h
           h2 == [h1 EXCEPT !.mInsets[i] =
                    [mElements       |-> Append(@.mElements, el),
                     mInsetPlacement |-> Append(@.mInsetPlacement, placement),
                     mInsetAlignment |-> Append(@.mInsetAlignment, alignment),
                     mInsetRect      |-> Append(@.mInsetRect, rect)]]
       IN adoptElement(h2, i, el)
  ELSE h

\* addElement(QCPLayoutElement *element, Qt::Alignment alignment)
insetAddElementAligned(h, i, el, alignment) ==
  InsetAppend(h, i, el, "ipBorderAligned", alignment,
              QRectF(Dbl(6, 1, -1), Dbl(6, 1, -1), Dbl(4, 1, -1), Dbl(4, 1, -1)))

InsetAddElementAligned(i, el, alignment) ==
  /\ Callable(i)
  /\ el \in alive \cup {Null}
  /\ SetHeap(insetAddElementAligned(Heap, i, el, alignment))
  /\ call' = [NoCall EXCEPT !.op = "inset addElement", !.g = i, !.el = el]
  /\ UNCHANGED <<mVisible, solverVars, marginVars, axisVars, layerVars>>

\* addElement(QCPLayoutElement *element, const QRectF &rect)
insetAddElementRect(h, i, el, rect) ==
  InsetAppend(h, i, el, "ipFree", {"AlignRight", "AlignTop"}, rect)

InsetAddElementRect(i, el, rect) ==
  /\ Callable(i)
  /\ el \in alive \cup {Null}
  /\ SetHeap(insetAddElementRect(Heap, i, el, rect))
  /\ call' = [NoCall EXCEPT !.op = "inset addElement", !.g = i, !.el = el]
  /\ UNCHANGED <<mVisible, solverVars, marginVars, axisVars, layerVars>>

OwnNext ==
  LET InsetTakeAt(i, index) ==
        /\ Callable(i)
        /\ LET r == insetTakeAt(Heap, i, index)
           IN /\ SetHeap(r.h)
              /\ call' = [NoCall EXCEPT !.op = "inset takeAt", !.g = i, !.el = r.ret,
                                        !.ret = r.ret,
                                        !.index = IF r.ret # Null THEN index ELSE -1]
        /\ UNCHANGED <<mVisible, solverVars, marginVars, axisVars, layerVars>>
      InsetTake(i, el) ==
        /\ Callable(i)
        /\ el \in alive \cup {Null}
        /\ LET r == insetTake(Heap, i, el)
           IN /\ SetHeap(r.h)
              /\ call' = [NoCall EXCEPT !.op = "inset take", !.g = i, !.ret = Bool(r.ret),
                                        !.el = IF r.ret THEN el ELSE Null]
        /\ UNCHANGED <<mVisible, solverVars, marginVars, axisVars, layerVars>>
      OwnRows == {-1, 0}
      OwnColumns == {0, 1}
  IN
  \/ \E row \in OwnRows, column \in OwnColumns, el \in {"e1", "e2", "i1", Null} :
       \E ub \in IF row < 0 \/ column < 0 THEN {"crash", "continue"} ELSE {"continue"} :
         AddElement("g1", row, column, el, ub)
  \/ \E el \in {"e1", "e2", "g1", Null} : InsetAddElementAligned("i1", el, {"AlignLeft"})
  \/ \E el \in {"e1", "e2"} : InsetAddElementRect("i1", el, QRectF(DInt(0), DInt(0), DInt(1), DInt(1)))
  \/ \E index \in -1..2 : TakeAt("g1", index)
  \/ \E el \in {"e1", "e2", "i1", Null} : Take("g1", el)
  \/ \E index \in -1..3 : InsetTakeAt("i1", index)
  \/ \E el \in {"e1", "e2", "g1", Null} : InsetTake("i1", el)

OwnSpec == Constructed({"e1", "e2", "g1", "i1"}, {}) /\ [][OwnNext]_vars

\* C11: after any sequence of addElement of grid and inset layouts (both
\* overloads), take and takeAt over several layouts, every element is in at
\* most one slot of at most one layout, its parentLayout and parentLayerable
\* are L exactly when it is in a slot of L, and null exactly when it is in no
\* slot.
C11_Ownership ==
  \* the slots that hold x: pairs of a layout and an index in it
  LET SlotsOf(x) ==
        {slot \in ((Layouts \cup Insets) \cap alive) \X (0..(MaxDim * MaxDim + 2)) :
           virtualElementAt(Heap, slot[1], slot[2]) = x}
  IN
  ~crashed =>
    \A x \in alive :
      /\ Cardinality(SlotsOf(x)) <= 1
      /\ \A L \in (Layouts \cup Insets) \cap alive :
           /\ mParentLayout[x] = L <=> \E slot \in SlotsOf(x) : slot[1] = L
           /\ mParentLayerable[x] = L <=> \E slot \in SlotsOf(x) : slot[1] = L
      /\ SlotsOf(x) = {} <=> mParentLayout[x] = Null
      /\ SlotsOf(x) = {} <=> mParentLayerable[x] = Null

\* C28: after any sequence of addElement of grid and inset layouts, take and
\* takeAt among layouts that are elements themselves, no element is its own
\* ancestor along mParentLayout or along mParentLayerable, and no layout
\* holds itself in a slot.
C28_Acyclic ==
  \* the ancestors of x along the parent function: at most one step per element
  LET RECURSIVE Above(_, _, _)
      Above(parent, x, steps) ==
        IF steps = 0 \/ x \notin DOMAIN parent \/ parent[x] = Null THEN {}
        ELSE {parent[x]} \cup Above(parent, parent[x], steps - 1)
  IN
  \A x \in alive :
    /\ x \notin Above(mParentLayout, x, Cardinality(ElementIds))
    /\ x \notin Above(mParentLayerable, x, Cardinality(ElementIds))
    /\ x \in Layouts \cup Insets =>
         \A index \in 0..(MaxDim * MaxDim + 2) : virtualElementAt(Heap, x, index) # x


(***************************************************************************)
(* Calls on layout elements and margin groups.                             *)
(***************************************************************************)
MarginState == [mOuterRect      |-> mOuterRect,
                mRect           |-> mRect,
                mMargins        |-> mMargins,
                mMinimumMargins |-> mMinimumMargins,
                mMinimumSize    |-> mMinimumSize,
                mMaximumSize    |-> mMaximumSize,
                mColumnSpacing  |-> mColumnSpacing,
                mRowSpacing     |-> mRowSpacing,
                mAutoMargins    |-> mAutoMargins,
                mMarginGroups   |-> mMarginGroups,
                mGroupChildren  |-> mGroupChildren,
                groups          |-> groups]

SetMarginState(s) ==
  /\ mOuterRect' = s.mOuterRect
  /\ mRect' = s.mRect
  /\ mMargins' = s.mMargins
  /\ mMinimumMargins' = s.mMinimumMargins
  /\ mMinimumSize' = s.mMinimumSize
  /\ mMaximumSize' = s.mMaximumSize
  /\ mColumnSpacing' = s.mColumnSpacing
  /\ mRowSpacing' = s.mRowSpacing
  /\ mAutoMargins' = s.mAutoMargins
  /\ mMarginGroups' = s.mMarginGroups
  /\ mGroupChildren' = s.mGroupChildren
  /\ groups' = s.groups

\* what every call on an element or margin group leaves alone
MarginFrame == UNCHANGED <<heapVars, mVisible, solverVars, layerVars, axisVars>>

(***************************************************************************)
(* SyncSpec: two layout elements and the margin group m1.  The elements    *)
(* join and leave the group, their outer rect, margins, minimum margins    *)
(* and automatic sides are set, and update() runs on them.                 *)
(***************************************************************************)
SetOuterRect(e, rect) ==
  /\ Callable(e)
  /\ SetMarginState(setOuterRect(MarginState, e, rect))
  /\ updated' = {}
  /\ call' = [NoCall EXCEPT !.op = "setOuterRect", !.el = e]
  /\ MarginFrame

SetMarginGroup(e, sides, group) ==
  /\ Callable(e)
  /\ group \in groups \cup {Null}
  /\ SetMarginState(setMarginGroup(MarginState, e, sides, group))
  /\ updated' = {}
  /\ call' = [NoCall EXCEPT !.op = "setMarginGroup", !.el = e, !.g = group]
  /\ MarginFrame

SyncNext ==
  LET setMinimumMargins(s, e, margins) ==
        IF s.mMinimumMargins[e] # margins THEN [s EXCEPT !.mMinimumMargins[e] = margins] ELSE s
      setAutoMargins(s, e, sides) == [s EXCEPT !.mAutoMargins[e] = sides]
      SetMargins(e, margins) ==
        /\ Callable(e)
        /\ SetMarginState(setMargins(MarginState, e, margins))
        /\ updated' = {}
        /\ call' = [NoCall EXCEPT !.op = "setMargins", !.el = e]
        /\ MarginFrame
      SetMinimumMargins(e, margins) ==
        /\ Callable(e)
        /\ SetMarginState(setMinimumMargins(MarginState, e, margins))
        /\ updated' = {}
        /\ call' = [NoCall EXCEPT !.op = "setMinimumMargins", !.el = e]
        /\ MarginFrame
      SetAutoMargins(e, sides) ==
        /\ Callable(e)
        /\ SetMarginState(setAutoMargins(MarginState, e, sides))
        /\ updated' = {}
        /\ call' = [NoCall EXCEPT !.op = "setAutoMargins", !.el = e]
        /\ MarginFrame
      Update(e) ==
        /\ Callable(e)
        /\ SetMarginState(update(MarginState, e))
        /\ updated' = updated \cup {e}
        /\ call' = [NoCall EXCEPT !.op = "update", !.el = e]
        /\ MarginFrame
      SyncMargins == {QMargins(l, 0, 0, 0) : l \in {-1, 0, 2}}
      SyncMinimumMargins == {QMargins(l, 0, 0, 0) : l \in {0, 1}}
  IN
  \/ \E rect \in {QRect(0, 0, 1, 2), QRect(1, 1, 4, 3)} : SetOuterRect("e1", rect)
  \/ \E e \in {"e1", "e2"}, group \in {"m1", Null} : SetMarginGroup(e, {"msLeft"}, group)
  \/ \E e \in {"e1", "e2"}, margins \in SyncMargins : SetMargins(e, margins)
  \/ \E e \in {"e1", "e2"}, margins \in SyncMinimumMargins : SetMinimumMargins(e, margins)
  \/ \E e \in {"e1", "e2"}, sides \in {msNone, msAll} : SetAutoMargins(e, sides)
  \/ \E e \in {"e1", "e2"} : Update(e)

SyncSpec == Constructed({"e1", "e2"}, {"m1"}) /\ [][SyncNext]_vars

\* C24: for a side with automatic margin, the value setMargins gave that side
\* has no influence on the margin the side has after the next update(): with
\* any other value in its place update() leaves the same margin on the side.
\* Manual sides keep exactly the value passed.
C24_AutoSideIgnoresSetMargins ==
  [][call'.op = "update" =>
       LET e == call'.el
           passed(side, value) ==
             [MarginState EXCEPT !.mMargins[e] =
                CASE side = "msLeft" -> [@ EXCEPT !.left = value]
                  [] side = "msRight" -> [@ EXCEPT !.right = value]
                  [] side = "msTop" -> [@ EXCEPT !.top = value]
                  [] side = "msBottom" -> [@ EXCEPT !.bottom = value]]
       IN /\ \A side \in mAutoMargins[e], value \in -1..2 :
               getMarginValue(update(passed(side, value), e).mMargins[e], side)
                 = getMarginValue(mMargins'[e], side)
          /\ \A side \in msAll \ mAutoMargins[e] :
               getMarginValue(mMargins'[e], side) = getMarginValue(mMargins[e], side)]_vars

\* C12: after any sequence of setOuterRect, setMargins and update, the inner
\* rect is the outer rect with each side moved inward by that side's margin,
\* and the width and height of the inner rect are never negative.
C12_InnerRect ==
  \A e \in alive :
    /\ mRect[e].x1 = mOuterRect[e].x1 + mMargins[e].left
    /\ mRect[e].y1 = mOuterRect[e].y1 + mMargins[e].top
    /\ mRect[e].x2 = mOuterRect[e].x2 - mMargins[e].right
    /\ mRect[e].y2 = mOuterRect[e].y2 - mMargins[e].bottom
    /\ width(mRect[e]) >= 0
    /\ height(mRect[e]) >= 0


\* the elements registered with group for side
Members(group, side) ==
  {mGroupChildren[group][side][i] : i \in 1..Len(mGroupChildren[group][side])}

\* C13: once update() has run on every member of a margin group, every member
\* with automatic margin on a side has the same margin there, the maximum over
\* the automatic members only of max(calculateAutoMargin, minimumMargin);
\* update() leaves the manual sides as they are, and its result is the same as
\* without the manual members in the group.
C13_MarginSync ==
  [][
  \* the members with automatic margin on side
  LET AutoMembers(group, side) == {x \in Members(group, side) : side \in mAutoMargins[x]}
  IN
  \* what element y asks for on side
  LET Wanted(y, side) ==
        Max(calculateAutoMargin(MarginState, y, side), getMarginValue(mMinimumMargins[y], side))
  IN
  \* update() has run on every member: the automatic members have one margin,
  \* the largest that an automatic member asks for
  LET Synchronised ==
        \A group \in groups, side \in msAll :
          Members(group, side) \subseteq updated =>
            \A x \in AutoMembers(group, side) :
              /\ \A y \in AutoMembers(group, side) : getMarginValue(mMargins[x], side) >= Wanted(y, side)
              /\ \E y \in AutoMembers(group, side) : getMarginValue(mMargins[x], side) = Wanted(y, side)
  IN
  \* the state with the manual members taken off the lists of the groups
  LET WithoutManualMembers ==
        [MarginState EXCEPT !.mGroupChildren =
           [group \in DOMAIN @ |->
              [side \in msAll |-> SelectSeq(@[group][side], LAMBDA x : side \in mAutoMargins[x])]]]
  IN
     /\ Synchronised'
     /\ call'.op = "update" =>
          /\ \A side \in msAll \ mAutoMargins[call'.el] :
               getMarginValue(mMargins'[call'.el], side)
                 = getMarginValue(mMargins[call'.el], side)
          /\ \A x \in alive \ {call'.el} : mMargins'[x] = mMargins[x]
          /\ mMargins'[call'.el] = update(WithoutManualMembers, call'.el).mMargins[call'.el]
  ]_vars

\* both elements are in the group, the manual one has the larger margin, and
\* update() has run on both
C13_Witness ==
  /\ call.op = "update"
  /\ updated = {"e1", "e2"}
  /\ Members("m1", "msLeft") = {"e1", "e2"}
  /\ mAutoMargins["e1"] = msAll /\ mAutoMargins["e2"] = msNone
  /\ mMargins["e2"].left = 2 /\ mMargins["e1"].left = 1


(***************************************************************************)
(* RegSpec: two layout elements and two margin groups.  Elements are       *)
(* registered with the groups and taken off them; groups are cleared;      *)
(* groups and elements are made and destroyed.                             *)
(***************************************************************************)

RegNext ==
  \* QCPMarginGroup::clear, the elements of one side, last to first; elements is
  \* the copy of the list taken before the loop
  LET RECURSIVE ClearSide(_, _, _, _)
      ClearSide(s, side, elements, i) ==
        IF i < 1 THEN s
        ELSE ClearSide(setMarginGroup(s, elements[i], {side}, Null), side, elements, i - 1)
  IN
  \* the sides are independent of each other, so the order of the hash does not matter
  LET RECURSIVE ClearFromSide(_, _, _)
      ClearFromSide(s, group, i) ==
        IF i > Len(Sides) THEN s
        ELSE LET elements == s.mGroupChildren[group][Sides[i]]
             IN ClearFromSide(ClearSide(s, Sides[i], elements, Len(elements)), group, i + 1)
  IN
  LET marginClear(s, group) == ClearFromSide(s, group, 1)
  IN
  \* the constructor and destructor of a margin group
  LET QCPMarginGroupNew(s, group) ==
        [s EXCEPT !.groups = @ \cup {group},
                  !.mGroupChildren[group] = [side \in msAll |-> <<>>]]
  IN
  LET QCPMarginGroupDelete(s, group) ==
        [marginClear(s, group) EXCEPT !.groups = @ \ {group}]
  IN
  \* the part of ~QCPLayoutElement that is about margin groups
  LET UnregisterMargins(s, e) == setMarginGroup(s, e, msAll, Null)
  IN
  LET MarginGroupClear(group) ==
        /\ ~crashed /\ group \in groups
        /\ SetMarginState(marginClear(MarginState, group))
        /\ updated' = {}
        /\ call' = [NoCall EXCEPT !.op = "clear", !.g = group]
        /\ MarginFrame
      NewMarginGroup(group) ==
        /\ ~crashed /\ group \notin groups
        /\ SetMarginState(QCPMarginGroupNew(MarginState, group))
        /\ updated' = {}
        /\ call' = [NoCall EXCEPT !.op = "new group", !.g = group]
        /\ MarginFrame
      DeleteMarginGroup(group) ==
        /\ ~crashed /\ group \in groups
        /\ SetMarginState(QCPMarginGroupDelete(MarginState, group))
        /\ updated' = {}
        /\ call' = [NoCall EXCEPT !.op = "delete group", !.g = group]
        /\ MarginFrame
  IN
  \* ~QCPLayoutElement: off the margin groups, then off the parent layout
  LET DeleteLayoutElement(e) ==
        /\ Callable(e)
        /\ SetMarginState(UnregisterMargins(MarginState, e))
        /\ SetHeap(DeleteElement(Heap, e))
        /\ updated' = {}
        /\ call' = [NoCall EXCEPT !.op = "delete element", !.el = e]
        /\ UNCHANGED <<mVisible, solverVars, layerVars, axisVars>>
  IN
  LET RegSides == {{"msLeft"}, {"msTop"}, msAll}
  IN
  \/ \E e \in {"e1", "e2"}, sides \in RegSides, group \in MarginGroupIds \cup {Null} :
       SetMarginGroup(e, sides, group)
  \/ \E group \in MarginGroupIds : MarginGroupClear(group)
  \/ \E group \in MarginGroupIds : NewMarginGroup(group)
  \/ \E group \in MarginGroupIds : DeleteMarginGroup(group)
  \/ \E e \in {"e1", "e2"} : DeleteLayoutElement(e)

RegSpec == Constructed({"e1", "e2"}, {"m1"}) /\ [][RegNext]_vars

\* C14: after any sequence of setMarginGroup (to a group, to another group,
\* to null), clear, element destruction and group destruction, an element
\* records a group for a side if and only if it is in the list of that group
\* for that side, and it is in the list at most once; a destroyed element or
\* group is in no record and no list.
C14_RegistrationSymmetric ==
  \A e \in ElementIds, group \in MarginGroupIds, side \in msAll :
    /\ mMarginGroups[e][side] = group <=> Contains(mGroupChildren[group][side], e)
    /\ Occurrences(mGroupChildren[group][side], e) <= 1
    /\ Contains(mGroupChildren[group][side], e) => e \in alive /\ group \in groups

\* the two elements are registered with different groups on the left side and
\* with one group on the top side
C14_Witness ==
  /\ mGroupChildren["m1"]["msLeft"] = <<"e2">>
  /\ mGroupChildren["m2"]["msLeft"] = <<"e1">>
  /\ mGroupChildren["m1"]["msTop"] = <<"e1", "e2">>
  /\ mMarginGroups["e1"]["msRight"] = "m1"


(***************************************************************************)
(* GridPlaceSpec: the grid layout g1 with the plain elements e1 and e2 in  *)
(* its cells.  The outer rect of the grid, its spacings and the minimum    *)
(* sizes of the elements are set, and updateLayout() places the cells.     *)
(***************************************************************************)
\* QCPLayoutElement::setMinimumSize; the parent's sizeConstraintsChanged only
\* tells the widget to update its geometry
SetMinimumSize(e, minimum) ==
  LET setMinimumSize(s) ==
        IF s.mMinimumSize[e] # minimum THEN [s EXCEPT !.mMinimumSize[e] = minimum] ELSE s
  IN
  /\ Callable(e)
  /\ SetMarginState(setMinimumSize(MarginState))
  /\ updated' = {}
  /\ call' = [NoCall EXCEPT !.op = "setMinimumSize", !.el = e]
  /\ MarginFrame

\* minColWidths and minRowHeights; the cells hold plain elements, whose
\* minimumSizeHint() is their mMinimumSize
getMinimumRowColSizes(s, h, g) ==
  LET final(el) ==
        LET minHint == s.mMinimumSize[el]
            min == s.mMinimumSize[el]
        IN QSize(IF min.width > 0 THEN min.width ELSE minHint.width,
                 IF min.height > 0 THEN min.height ELSE minHint.height)
      \* the largest of the values of the elements in cells, at least 0
      largest(cells, value(_)) ==
        LET F[i \in 0..Len(cells)] ==
              IF i = 0 THEN 0
              ELSE IF cells[i] # Null /\ F[i - 1] < value(cells[i]) THEN value(cells[i])
              ELSE F[i - 1]
        IN F[Len(cells)]
      w(el) == final(el).width
      ht(el) == final(el).height
  IN [minColWidths  |-> [col \in 1..columnCount(h, g) |->
                          largest([row \in 1..rowCount(h, g) |-> h.mElements[g][row][col]], w)],
      minRowHeights |-> [row \in 1..rowCount(h, g) |-> largest(h.mElements[g][row], ht)]]

\* the elements after QCPLayoutGrid::updateLayout()
updateLayout(s, h, g) ==
  \* the cells hold plain elements, whose maximumSizeHint() is their mMaximumSize
  LET getMaximumRowColSizes ==
        LET final(el) ==
              LET maxHint == s.mMaximumSize[el]
                  max == s.mMaximumSize[el]
              IN QSize(IF max.width < QWIDGETSIZE_MAX THEN max.width ELSE maxHint.width,
                       IF max.height < QWIDGETSIZE_MAX THEN max.height ELSE maxHint.height)
            smallest(cells, value(_)) ==
              LET F[i \in 0..Len(cells)] ==
                    IF i = 0 THEN QWIDGETSIZE_MAX
                    ELSE IF cells[i] # Null /\ F[i - 1] > value(cells[i]) THEN value(cells[i])
                    ELSE F[i - 1]
              IN F[Len(cells)]
            w(el) == final(el).width
            ht(el) == final(el).height
        IN [maxColWidths  |-> [col \in 1..columnCount(h, g) |->
                                smallest([row \in 1..rowCount(h, g) |-> h.mElements[g][row][col]], w)],
            maxRowHeights |-> [row \in 1..rowCount(h, g) |-> smallest(h.mElements[g][row], ht)]]
      totalRowSpacing == (rowCount(h, g) - 1) * s.mRowSpacing[g]
      totalColSpacing == (columnCount(h, g) - 1) * s.mColumnSpacing[g]
  IN
  \* the offset before section k (0-based): sizes and spacings of the sections before it
  LET offset(start, sizes, spacing, k) ==
        LET F[i \in 0..k] == IF i = 0 THEN start ELSE F[i - 1] + sizes[i] + spacing
        IN F[k]
  IN
  \* "go through cells and set rects accordingly"
  LET setRects(colWidths, rowHeights) ==
        \* the elements with the first n cells placed, row by row
        LET placed[n \in 0..elementCount(h, g)] ==
              IF n = 0 THEN s
              ELSE LET row == (n - 1) \div columnCount(h, g)
                       col == (n - 1) % columnCount(h, g)
                       el  == h.mElements[g][row + 1][col + 1]
                   IN IF el # Null
                      THEN setOuterRect(placed[n - 1], el,
                             QRect(offset(s.mRect[g].x1, colWidths, s.mColumnSpacing[g], col),
                                   offset(s.mRect[g].y1, rowHeights, s.mRowSpacing[g], row),
                                   colWidths[col + 1], rowHeights[row + 1]))
                      ELSE placed[n - 1]
        IN placed[elementCount(h, g)]
      sectionSizes(mins, maxs) ==
        setRects(getSectionSizes(maxs.maxColWidths, mins.minColWidths,
                                 [i \in 1..columnCount(h, g) |->
                                    DInt(h.mColumnStretchFactors[g][i])],
                                 width(s.mRect[g]) - totalColSpacing),
                 getSectionSizes(maxs.maxRowHeights, mins.minRowHeights,
                                 [i \in 1..rowCount(h, g) |-> DInt(h.mRowStretchFactors[g][i])],
                                 height(s.mRect[g]) - totalRowSpacing))
  IN sectionSizes(getMinimumRowColSizes(s, h, g), getMaximumRowColSizes)

GridPlaceNext ==
  LET setColumnSpacing(s, g, pixels) == [s EXCEPT !.mColumnSpacing[g] = pixels]
      setRowSpacing(s, g, pixels) == [s EXCEPT !.mRowSpacing[g] = pixels]
  IN
  LET SetColumnSpacing(g, pixels) ==
        /\ Callable(g)
        /\ SetMarginState(setColumnSpacing(MarginState, g, pixels))
        /\ updated' = {}
        /\ call' = [NoCall EXCEPT !.op = "setColumnSpacing", !.g = g]
        /\ MarginFrame
      SetRowSpacing(g, pixels) ==
        /\ Callable(g)
        /\ SetMarginState(setRowSpacing(MarginState, g, pixels))
        /\ updated' = {}
        /\ call' = [NoCall EXCEPT !.op = "setRowSpacing", !.g = g]
        /\ MarginFrame
      UpdateLayout(g) ==
        /\ Callable(g)
        /\ SetMarginState(updateLayout(MarginState, Heap, g))
        /\ updated' = {}
        /\ call' = [NoCall EXCEPT !.op = "updateLayout", !.g = g]
        /\ MarginFrame
  IN
  \/ \E cell \in {<<0, 0, "e1">>, <<0, 1, "e2">>, <<1, 1, "e2">>} :
       AddElement("g1", cell[1], cell[2], cell[3], "continue")
  \/ \E minimum \in {QSize(0, 0), QSize(2, 1)} : SetMinimumSize("e1", minimum)
  \/ \E pixels \in {0, 5} : SetColumnSpacing("g1", pixels)
  \/ \E pixels \in {0, 5} : SetRowSpacing("g1", pixels)
  \/ SetOuterRect("g1", QRect(1, 2, 8, 7))
  \/ UpdateLayout("g1")

GridPlaceSpec == Constructed({"e1", "e2", "g1"}, {}) /\ [][GridPlaceNext]_vars

\* C29: when the minimum column widths and row heights with the spacings
\* between them fit in the inner rect of the grid, updateLayout() puts the
\* cells of the first column at the left and those of the first row at the
\* top of that rect, the cells of a column (row) get one left edge and width
\* (top edge and height), a cell of the next column (row) starts one column
\* (row) spacing after the end of the one before it, and every cell's outer
\* rect lies within the inner rect of the grid.
C29_GridGeometry ==
  LET g == call.g
      \* the occupied cells: row, column (0-based) and element
      cells == {c \in (0..(MaxDim - 1)) \X (0..(MaxDim - 1)) \X ElementIds :
                  /\ c[1] < rowCount(Heap, g) /\ c[2] < columnCount(Heap, g)
                  /\ mElements[g][c[1] + 1][c[2] + 1] = c[3]}
      mins == getMinimumRowColSizes(MarginState, Heap, g)
      feasible ==
        /\ SumInts(mins.minColWidths) + (columnCount(Heap, g) - 1) * mColumnSpacing[g]
             <= width(mRect[g])
        /\ SumInts(mins.minRowHeights) + (rowCount(Heap, g) - 1) * mRowSpacing[g]
             <= height(mRect[g])
  IN
  (call.op = "updateLayout" /\ feasible) =>
    \A a \in cells :
      LET ra == mOuterRect[a[3]]
      IN /\ a[2] = 0 => ra.x1 = mRect[g].x1
         /\ a[1] = 0 => ra.y1 = mRect[g].y1
         /\ \A b \in cells :
              LET rb == mOuterRect[b[3]]
              IN /\ b[2] = a[2] => (rb.x1 = ra.x1 /\ rb.x2 = ra.x2)
                 /\ b[1] = a[1] => (rb.y1 = ra.y1 /\ rb.y2 = ra.y2)
                 /\ b[2] = a[2] + 1 => rb.x1 = ra.x2 + 1 + mColumnSpacing[g]
                 /\ b[1] = a[1] + 1 => rb.y1 = ra.y2 + 1 + mRowSpacing[g]
         /\ mRect[g].x1 <= ra.x1 /\ ra.x2 <= mRect[g].x2
         /\ mRect[g].y1 <= ra.y1 /\ ra.y2 <= mRect[g].y2

(***************************************************************************)
(* InsetPlaceSpec: the inset layout i1 with the plain elements e1, border  *)
(* aligned, and e2, placed freely.  The outer rect of the layout and the   *)
(* minimum size of e1 are set, and updateLayout() places the elements.     *)
(***************************************************************************)
InsetPlaceNext ==
  \* the conversion of a double to int: towards zero
  LET toInt(x) == IF DLess(x, DInt(0)) THEN -DFloor(DNeg(x)) ELSE DFloor(x)
      \* QRect::setWidth, setHeight, setSize, moveLeft, moveRight, moveTop, moveBottom
      setWidth(r, w) == [r EXCEPT !.x2 = r.x1 + w - 1]
      setHeight(r, ht) == [r EXCEPT !.y2 = r.y1 + ht - 1]
      moveLeft(r, pos) == [r EXCEPT !.x2 = @ + (pos - r.x1), !.x1 = pos]
      moveRight(r, pos) == [r EXCEPT !.x1 = @ + (pos - r.x2), !.x2 = pos]
      moveTop(r, pos) == [r EXCEPT !.y2 = @ + (pos - r.y1), !.y1 = pos]
      moveBottom(r, pos) == [r EXCEPT !.y1 = @ + (pos - r.y2), !.y2 = pos]
  IN
  \* the elements after QCPLayoutInset::updateLayout(); the children are plain
  \* elements, whose size hints are their mMinimumSize and mMaximumSize
  LET insetUpdateLayout(s, h, i) ==
        LET rect == s.mRect[i]
            insetRectOf(k) ==
              LET el == h.mInsets[i].mElements[k]
                  minSizeHint == s.mMinimumSize[el]
                  maxSizeHint == s.mMaximumSize[el]
                  finalMinSize ==
                    QSize(IF s.mMinimumSize[el].width > 0 THEN s.mMinimumSize[el].width
                          ELSE minSizeHint.width,
                          IF s.mMinimumSize[el].height > 0 THEN s.mMinimumSize[el].height
                          ELSE minSizeHint.height)
                  finalMaxSize ==
                    QSize(IF s.mMaximumSize[el].width < QWIDGETSIZE_MAX
                          THEN s.mMaximumSize[el].width ELSE maxSizeHint.width,
                          IF s.mMaximumSize[el].height < QWIDGETSIZE_MAX
                          THEN s.mMaximumSize[el].height ELSE maxSizeHint.height)
                  al == h.mInsets[i].mInsetAlignment[k]
                  f  == h.mInsets[i].mInsetRect[k]
                  atLeastWidth(r) == IF width(r) < finalMinSize.width
                                     THEN setWidth(r, finalMinSize.width) ELSE r
                  atLeastHeight(r) == IF height(r) < finalMinSize.height
                                      THEN setHeight(r, finalMinSize.height) ELSE r
                  atMostWidth(r) == IF width(r) > finalMaxSize.width
                                    THEN setWidth(r, finalMaxSize.width) ELSE r
                  atMostHeight(r) == IF height(r) > finalMaxSize.height
                                     THEN setHeight(r, finalMaxSize.height) ELSE r
                  free ==
                    atMostHeight(atMostWidth(atLeastHeight(atLeastWidth(
                      QRect(toInt(XAdd(DInt(rect.x1), XMul(DInt(width(rect)), f.x))),
                            toInt(XAdd(DInt(rect.y1), XMul(DInt(height(rect)), f.y))),
                            toInt(XMul(DInt(width(rect)), f.width)),
                            toInt(XMul(DInt(height(rect)), f.height)))))))
                  horizontally(r) ==
                    IF "AlignLeft" \in al THEN moveLeft(r, rect.x1)
                    ELSE IF "AlignRight" \in al THEN moveRight(r, rect.x1 + width(rect))
                    ELSE moveLeft(r, toInt(Dbl(2 * rect.x1 + width(rect) - finalMinSize.width,
                                               2, 0)))
                  vertically(r) ==
                    IF "AlignTop" \in al THEN moveTop(r, rect.y1)
                    ELSE IF "AlignBottom" \in al THEN moveBottom(r, rect.y1 + height(rect))
                    ELSE moveTop(r, toInt(Dbl(2 * rect.y1 + height(rect) - finalMinSize.height,
                                              2, 0)))
                  aligned ==
                    vertically(horizontally(setHeight(setWidth(QRect(0, 0, 0, 0),
                                                               finalMinSize.width),
                                                      finalMinSize.height)))
              IN IF h.mInsets[i].mInsetPlacement[k] = "ipFree" THEN free
                 ELSE IF h.mInsets[i].mInsetPlacement[k] = "ipBorderAligned" THEN aligned
                 ELSE QRect(0, 0, 0, 0)
            placed[n \in 0..Len(h.mInsets[i].mElements)] ==
              IF n = 0 THEN s
              ELSE setOuterRect(placed[n - 1], h.mInsets[i].mElements[n], insetRectOf(n))
        IN placed[Len(h.mInsets[i].mElements)]
  IN
  LET InsetUpdateLayout(i) ==
        /\ Callable(i)
        /\ SetMarginState(insetUpdateLayout(MarginState, Heap, i))
        /\ updated' = {}
        /\ call' = [NoCall EXCEPT !.op = "inset updateLayout", !.g = i]
        /\ MarginFrame
  IN
  \/ \E alignment \in {{"AlignLeft", "AlignTop"}, {"AlignRight"}, {"AlignBottom"}} :
       InsetAddElementAligned("i1", "e1", alignment)
  \/ InsetAddElementRect("i1", "e2", QRectF(DInt(0), DInt(0), DInt(1), DInt(1)))
  \/ \E minimum \in {QSize(0, 0), QSize(2, 1), QSize(5, 5)} : SetMinimumSize("e1", minimum)
  \/ SetOuterRect("i1", QRect(1, 2, 4, 3))
  \/ InsetUpdateLayout("i1")

InsetPlaceSpec == Constructed({"e1", "e2", "i1"}, {}) /\ [][InsetPlaceNext]_vars

\* C30: updateLayout() of an inset layout gives a border-aligned child whose
\* minimum size fits in the inner rect of the layout an outer rect of that
\* size, whose left, right, top or bottom edge (the one its alignment asks
\* for; x2 and y2 are QRect's right() and bottom()) is that edge of the
\* inner rect, and which lies within the inner rect.
C30_BorderAligned ==
  call.op = "inset updateLayout" =>
    LET i == call.g
        rect == mRect[i]
    IN \A k \in 1..Len(mInsets[i].mElements) :
         LET el == mInsets[i].mElements[k]
             al == mInsets[i].mInsetAlignment[k]
             r  == mOuterRect[el]
         IN (/\ mInsets[i].mInsetPlacement[k] = "ipBorderAligned"
             /\ mMinimumSize[el].width <= width(rect)
             /\ mMinimumSize[el].height <= height(rect)) =>
              /\ width(r) = mMinimumSize[el].width /\ height(r) = mMinimumSize[el].height
              /\ "AlignLeft" \in al => r.x1 = rect.x1
              /\ ("AlignRight" \in al /\ "AlignLeft" \notin al) => r.x2 = rect.x2
              /\ "AlignTop" \in al => r.y1 = rect.y1
              /\ ("AlignBottom" \in al /\ "AlignTop" \notin al) => r.y2 = rect.y2
              /\ rect.x1 <= r.x1 /\ r.x2 <= rect.x2
              /\ rect.y1 <= r.y1 /\ r.y2 <= rect.y2

(***************************************************************************)
(* Calls on the axis and on QCPRange.                                      *)
(***************************************************************************)
AxisState == [mRange             |-> mRange,
              mRangeReversed     |-> mRangeReversed,
              mScaleType         |-> mScaleType,
              orientation        |-> orientation,
              mAxisRect          |-> mAxisRect,
              mCachedMarginValid |-> mCachedMarginValid,
              mTickStep          |-> mTickStep,
              mAutoTickStep      |-> mAutoTickStep,
              mAutoTickCount     |-> mAutoTickCount,
              mTickVector        |-> mTickVector,
              mVisible           |-> marginParts.mVisible,
              mTicks             |-> marginParts.mTicks,
              mTickLengthOut     |-> marginParts.mTickLengthOut,
              mSubTickLengthOut  |-> marginParts.mSubTickLengthOut,
              mTickLabels        |-> marginParts.mTickLabels,
              mTickLabelPadding  |-> marginParts.mTickLabelPadding,
              mLabel             |-> marginParts.mLabel,
              mLabelPadding      |-> marginParts.mLabelPadding,
              mPadding           |-> marginParts.mPadding,
              mCachedMargin      |-> marginParts.mCachedMargin,
              emitted            |-> <<>>]

SetAxisState(ax) ==
  /\ mRange' = ax.mRange
  /\ mRangeReversed' = ax.mRangeReversed
  /\ mScaleType' = ax.mScaleType
  /\ orientation' = ax.orientation
  /\ mAxisRect' = ax.mAxisRect
  /\ mCachedMarginValid' = ax.mCachedMarginValid
  /\ mTickStep' = ax.mTickStep
  /\ mAutoTickStep' = ax.mAutoTickStep
  /\ mAutoTickCount' = ax.mAutoTickCount
  /\ mTickVector' = ax.mTickVector
  /\ marginParts' = [field \in DOMAIN MarginParts |-> ax[field]]
  /\ emitted' = ax.emitted
  /\ UNCHANGED <<layoutVars, solverVars, layerVars, marginVars>>

SetRange(range) ==
  /\ SetAxisState(setRange(AxisState, range))
  /\ axisCall' = [NoAxisCall EXCEPT !.op = "setRange(range)", !.arg = range]

SetRangeLower(lower) ==
  LET setRangeLower(ax) ==
        IF DEq(ax.mRange.lower, lower) THEN ax
        ELSE LET changed == [ax.mRange EXCEPT !.lower = lower]
                 newRange == IF ax.mScaleType = "stLogarithmic"
                             THEN sanitizedForLogScale(changed)
                             ELSE sanitizedForLinScale(changed)
             IN [ax EXCEPT !.mRange = newRange,
                           !.mCachedMarginValid = FALSE,
                           !.emitted = RangeChanged(newRange, ax.mRange)]
  IN
  /\ SetAxisState(setRangeLower(AxisState))
  /\ axisCall' = [NoAxisCall EXCEPT !.op = "setRangeLower", !.value = lower]

setScaleType(ax, type) ==
  IF ax.mScaleType # type
  THEN [ax EXCEPT !.mScaleType = type,
                  !.mRange = IF type = "stLogarithmic" THEN sanitizedForLogScale(@) ELSE @,
                  !.mCachedMarginValid = FALSE]
  ELSE ax

SetScaleType(type) ==
  /\ SetAxisState(setScaleType(AxisState, type))
  /\ axisCall' = [NoAxisCall EXCEPT !.op = "setScaleType"]

(***************************************************************************)
(* ValidRangeSpec: validRange as a pure function.                          *)
(* RangeSpec: the range of one axis.                                       *)
(***************************************************************************)

ValidRangeNext ==
  LET ValidRange(lower, upper) ==
        /\ axisCall' = [NoAxisCall EXCEPT !.op = "validRange", !.arg = QCPRange(lower, upper),
                                          !.ok = validRange(lower, upper)]
        /\ SetAxisState(AxisState)
  IN
  \* bounds at and around minRange and maxRange
  LET ValidRangeInputs ==
        {DInt(0), DInt(1), DInt(-1),
         Dbl(1, 1, -280), Dbl(2, 1, -280), Dbl(-1, 1, -280),
         Dbl(5, 1, 249), Dbl(-5, 1, 249), Dbl(1, 1, 250), Dbl(-1, 1, 250), Dbl(2, 1, 250)}
  IN
  \E lower \in ValidRangeInputs, upper \in ValidRangeInputs : ValidRange(lower, upper)

ValidRangeSpec == Constructed({}, {}) /\ [][ValidRangeNext]_vars

RangeNext ==
  \* the overload setRange(double lower, double upper)
  LET setRangeBounds(ax, lower, upper) ==
        IF DEq(lower, ax.mRange.lower) /\ DEq(upper, ax.mRange.upper) THEN ax
        ELSE IF ~validRange(lower, upper) THEN ax
        ELSE LET newRange == IF ax.mScaleType = "stLogarithmic"
                             THEN sanitizedForLogScale(QCPRange(lower, upper))
                             ELSE sanitizedForLinScale(QCPRange(lower, upper))
             IN [ax EXCEPT !.mRange = newRange,
                           !.mCachedMarginValid = FALSE,
                           !.emitted = RangeChanged(newRange, ax.mRange)]
  IN
  LET SetRangeBounds(lower, upper) ==
        /\ SetAxisState(setRangeBounds(AxisState, lower, upper))
        /\ axisCall' = [NoAxisCall EXCEPT !.op = "setRange(lower, upper)",
                                          !.arg = QCPRange(lower, upper)]
      CalculateMargin ==
        /\ SetAxisState(calculateMargin(AxisState))
        /\ axisCall' = [NoAxisCall EXCEPT !.op = "calculateMargin"]
      SetRangeInputs == {DInt(-1), DInt(0), Dbl(5, 1, -1), DInt(1), DInt(5), Dbl(5, 1, 249),
                         Dbl(1, 1, 250)}
  IN
  \/ \E lower \in SetRangeInputs, upper \in SetRangeInputs : SetRange(QCPRange(lower, upper))
  \/ \E lower \in SetRangeInputs, upper \in SetRangeInputs : SetRangeBounds(lower, upper)
  \/ \E type \in {"stLinear", "stLogarithmic"} : SetScaleType(type)
  \/ CalculateMargin

RangeSpec == Constructed({}, {}) /\ [][RangeNext]_vars

(***************************************************************************)
(* AxisRangeSpec: every operation that writes the range of one axis.       *)
(***************************************************************************)
\* the range bounds followed are n, n/10, n/100 and n/1000 (the granularity of
\* sanitizedForLogScale's rangeFac) for the integers n of magnitude <= MaxCoord
MaxCoord == 6

AxisRangeNext ==
  LET setRangeUpper(ax, upper) ==
        IF DEq(ax.mRange.upper, upper) THEN ax
        ELSE LET changed == [ax.mRange EXCEPT !.upper = upper]
                 newRange == IF ax.mScaleType = "stLogarithmic"
                             THEN sanitizedForLogScale(changed)
                             ELSE sanitizedForLinScale(changed)
             IN [ax EXCEPT !.mRange = newRange,
                           !.mCachedMarginValid = FALSE,
                           !.emitted = RangeChanged(newRange, ax.mRange)]
      moveRange(ax, diff) ==
        LET newRange == IF ax.mScaleType = "stLinear"
                        THEN QCPRange(XAdd(ax.mRange.lower, diff), XAdd(ax.mRange.upper, diff))
                        ELSE QCPRange(XMul(ax.mRange.lower, diff), XMul(ax.mRange.upper, diff))
        IN [ax EXCEPT !.mRange = newRange,
                      !.mCachedMarginValid = FALSE,
                      !.emitted = RangeChanged(newRange, ax.mRange)]
      \* factor is a small natural number, so that pow is repeated multiplication
      scaleRange(ax, factor, centre) ==
        LET pow[n \in 0..factor] == [x \in {ax.mRange.lower, ax.mRange.upper} |->
                                      IF n = 0 THEN DInt(1) ELSE XMul(XDiv(x, centre), pow[n - 1][x])]
            linRange == QCPRange(XAdd(XMul(XSub(ax.mRange.lower, centre), DInt(factor)), centre),
                                 XAdd(XMul(XSub(ax.mRange.upper, centre), DInt(factor)), centre))
            logRange == QCPRange(XMul(pow[factor][ax.mRange.lower], centre),
                                 XMul(pow[factor][ax.mRange.upper], centre))
            newRange ==
              IF ax.mScaleType = "stLinear"
              THEN IF validRange(linRange.lower, linRange.upper)
                   THEN sanitizedForLinScale(linRange) ELSE ax.mRange
              ELSE IF \/ DLess(ax.mRange.upper, DInt(0)) /\ DLess(centre, DInt(0))
                      \/ DLess(DInt(0), ax.mRange.upper) /\ DLess(DInt(0), centre)
                   THEN IF validRange(logRange.lower, logRange.upper)
                        THEN sanitizedForLogScale(logRange) ELSE ax.mRange
                   ELSE ax.mRange
        IN [ax EXCEPT !.mRange = newRange,
                      !.mCachedMarginValid = FALSE,
                      !.emitted = RangeChanged(newRange, ax.mRange)]
  IN
  LET SetRangeUpper(upper) ==
        /\ SetAxisState(setRangeUpper(AxisState, upper))
        /\ axisCall' = [NoAxisCall EXCEPT !.op = "setRangeUpper", !.value = upper]
      MoveRange(diff) ==
        /\ SetAxisState(moveRange(AxisState, diff))
        /\ axisCall' = [NoAxisCall EXCEPT !.op = "moveRange", !.value = diff]
      ScaleRange(factor, centre) ==
        /\ SetAxisState(scaleRange(AxisState, factor, centre))
        /\ axisCall' = [NoAxisCall EXCEPT !.op = "scaleRange", !.value = centre]
      Coords == {DInt(-5), DInt(-1), DInt(0), DInt(1), DInt(5)}
      followed(x) == /\ x.k = "fin"
                     /\ LET u == DNorm(x)
                        IN u.d = 1 /\ u.n \in -MaxCoord..MaxCoord /\ u.e \in -3..0
  IN
  /\ \/ \E lower \in Coords, upper \in Coords : SetRange(QCPRange(lower, upper))
     \/ \E lower \in Coords : SetRangeLower(lower)
     \/ \E upper \in Coords : SetRangeUpper(upper)
     \/ \E diff \in {DInt(-1), DInt(0), DInt(1), DInt(2)} : MoveRange(diff)
     \/ \E factor \in {0, 2}, centre \in {DInt(-1), DInt(0), DInt(1)} : ScaleRange(factor, centre)
     \/ \E type \in {"stLinear", "stLogarithmic"} : SetScaleType(type)
  /\ followed(mRange'.lower) /\ followed(mRange'.upper)

AxisRangeSpec == Constructed({}, {}) /\ [][AxisRangeNext]_vars

\* C27: from the default range (0, 5), after any sequence of setRange,
\* setRangeLower, setRangeUpper, moveRange, scaleRange and setScaleType the
\* range of the axis has lower <= upper and passes validRange, and on a
\* logarithmic axis both bounds are non-zero and of the same sign.
C27_RangeInvariant ==
  /\ DLessEq(mRange.lower, mRange.upper)
  /\ validRange(mRange.lower, mRange.upper)
  /\ mScaleType = "stLogarithmic" =>
        \/ DLess(DInt(0), mRange.lower) /\ DLess(DInt(0), mRange.upper)
        \/ DLess(mRange.lower, DInt(0)) /\ DLess(mRange.upper, DInt(0))

(***************************************************************************)
(* CacheSpec: the setters of one axis that calculateMargin depends on,     *)
(* setVisible, and calculateMargin.                                        *)
(***************************************************************************)
\* at most this many fields of the axis differ from what its constructor gave
MaxChanged == 2

CacheNext ==
  \* setRangeReversed, setTicks, setTickLabels, setTickLabelPadding,
  \* setTickLengthOut, setSubTickLengthOut, setLabel, setLabelPadding and
  \* setPadding: a changed value is stored and the cached margin dropped
  LET setter(ax, field, value) ==
        IF ax[field] # value
        THEN [ax EXCEPT ![field] = value, !.mCachedMarginValid = FALSE]
        ELSE ax
      \* QCPLayerable::setVisible stores the flag, nothing else
      setVisible(ax, on) == [ax EXCEPT !.mVisible = on]
      Call(name, ax) ==
        /\ SetAxisState(ax)
        /\ axisCall' = [NoAxisCall EXCEPT !.op = name]
  IN
  LET SetRangeReversed(reversed) ==
        Call("setRangeReversed", setter(AxisState, "mRangeReversed", reversed))
      SetTicks(show) == Call("setTicks", setter(AxisState, "mTicks", show))
      SetTickLabels(show) == Call("setTickLabels", setter(AxisState, "mTickLabels", show))
      SetTickLabelPadding(padding) ==
        Call("setTickLabelPadding", setter(AxisState, "mTickLabelPadding", padding))
      SetTickLengthOut(outside) ==
        Call("setTickLengthOut", setter(AxisState, "mTickLengthOut", outside))
      SetSubTickLengthOut(outside) ==
        Call("setSubTickLengthOut", setter(AxisState, "mSubTickLengthOut", outside))
      SetLabel(str) == Call("setLabel", setter(AxisState, "mLabel", str))
      SetLabelPadding(padding) ==
        Call("setLabelPadding", setter(AxisState, "mLabelPadding", padding))
      SetPadding(padding) == Call("setPadding", setter(AxisState, "mPadding", padding))
      SetVisible(on) == Call("setVisible", setVisible(AxisState, on))
      CalculateMargin == Call("calculateMargin", calculateMargin(AxisState))
  IN
  LET changed ==
        Cardinality({field \in DOMAIN MarginParts \ {"mCachedMargin"} :
                       marginParts[field] # MarginParts[field]})
        + (IF SameBounds(mRange, QCPRange(DInt(0), DInt(5))) THEN 0 ELSE 1)
        + (IF mScaleType = "stLinear" THEN 0 ELSE 1)
        + (IF mRangeReversed THEN 1 ELSE 0)
  IN
  /\ \/ \E lower \in {DInt(0), DInt(1)} : SetRange(QCPRange(lower, DInt(5)))
     \/ \E type \in {"stLinear", "stLogarithmic"} : SetScaleType(type)
     \/ \E reversed \in BOOLEAN : SetRangeReversed(reversed)
     \/ \E show \in BOOLEAN : SetTicks(show)
     \/ \E show \in BOOLEAN : SetTickLabels(show)
     \/ \E padding \in {0, 2} : SetTickLabelPadding(padding)
     \/ \E outside \in {0, 3} : SetTickLengthOut(outside)
     \/ \E outside \in {0, 4} : SetSubTickLengthOut(outside)
     \/ \E str \in {"", "x"} : SetLabel(str)
     \/ \E padding \in {0, 1} : SetLabelPadding(padding)
     \/ \E padding \in {5, 6} : SetPadding(padding)
     \/ \E on \in BOOLEAN : SetVisible(on)
     \/ CalculateMargin
  /\ changed' <= MaxChanged

CacheSpec == Constructed({}, {}) /\ [][CacheNext]_vars

\* C26: in every state reached by the axis setters and setVisible, a valid
\* cached margin is the margin that calculateMargin would compute afresh
\* from the current state of the axis.
C26_CacheCoherent ==
  mCachedMarginValid =>
    marginParts.mCachedMargin
      = calculateMargin([AxisState EXCEPT !.mCachedMarginValid = FALSE]).mCachedMargin

\* C19: validRange(lower, upper) is false for every pair, in either order,
\* with |upper-lower| <= minRange, or |upper-lower| >= maxRange, or the
\* absolute value of either bound >= maxRange.
C19_ValidRange ==
  axisCall.op = "validRange" =>
    LET lower == axisCall.arg.lower
        upper == axisCall.arg.upper
        difference == qAbs(XSub(upper, lower))
    IN (\/ DLessEq(difference, minRange)
        \/ DLessEq(maxRange, difference)
        \/ DLessEq(maxRange, qAbs(lower))
        \/ DLessEq(maxRange, qAbs(upper)))
       => ~axisCall.ok

\* C20: setRange with a range for which validRange is false, or with the
\* bounds the axis has, changes nothing: the range and the cached-margin flag
\* stay, and no rangeChanged is emitted.
C20_SetRangeRejected ==
  [][(/\ axisCall'.op \in {"setRange(range)", "setRange(lower, upper)"}
      /\ \/ ~validRange(axisCall'.arg.lower, axisCall'.arg.upper)
         \/ SameBounds(axisCall'.arg, mRange))
     => /\ mRange' = mRange
        /\ mCachedMarginValid' = mCachedMarginValid
        /\ emitted' = <<>>
        /\ UNCHANGED <<mRangeReversed, mScaleType, orientation, mAxisRect, mTickStep,
                       mAutoTickStep, mAutoTickCount, mTickVector>>]_vars

\* an invalid range was given to an axis whose range was changed before and
\* whose margin is cached
C20_Witness ==
  /\ axisCall.op = "setRange(range)"
  /\ ~validRange(axisCall.arg.lower, axisCall.arg.upper)
  /\ ~SameBounds(axisCall.arg, mRange)
  /\ mCachedMarginValid
  /\ ~SameBounds(mRange, QCPRange(DInt(0), DInt(5)))


\* C21 as stated: on an axis with logarithmic scale, setRange with a range
\* that spans zero (lower < 0 < upper) or touches zero is rejected outright:
\* the old range is retained and nothing is partially applied.
C21_LogSpanRejected ==
  [][(/\ axisCall'.op \in {"setRange(range)", "setRange(lower, upper)"}
      /\ mScaleType = "stLogarithmic"
      /\ DLessEq(axisCall'.arg.lower, DInt(0))
      /\ DLessEq(DInt(0), axisCall'.arg.upper))
     => /\ mRange' = mRange
        /\ mCachedMarginValid' = mCachedMarginValid
        /\ emitted' = <<>>]_vars

\* C21 amended: on an axis with logarithmic scale, setRange with a range that
\* passes validRange, differs from the range of the axis and spans zero
\* (lower < 0 < upper) or touches zero is not rejected.  The axis keeps the
\* requested bound of the wider sign domain (upper when upper >= -lower, else
\* lower) and gives the other bound the sign of the kept bound and the
\* magnitude 1e-3 or 1e-3 times the magnitude of the kept bound, whichever is
\* smaller; the cached margin is invalidated and rangeChanged is emitted.
C21_LogSpanSanitized ==
  [][(/\ axisCall'.op \in {"setRange(range)", "setRange(lower, upper)"}
      /\ mScaleType = "stLogarithmic"
      /\ DLessEq(axisCall'.arg.lower, DInt(0))
      /\ DLessEq(DInt(0), axisCall'.arg.upper)
      /\ validRange(axisCall'.arg.lower, axisCall'.arg.upper)
      /\ ~SameBounds(axisCall'.arg, mRange))
     => LET lower == axisCall'.arg.lower
            upper == axisCall'.arg.upper
            fac == Dbl(1, 1, -3)
            scaled(x) == IF DLess(XMul(qAbs(x), fac), fac) THEN XMul(qAbs(x), fac) ELSE fac
        IN /\ IF DLessEq(XNeg(lower), upper)
              THEN /\ DEq(mRange'.upper, upper)
                   /\ DEq(mRange'.lower, scaled(upper))
              ELSE /\ DEq(mRange'.lower, lower)
                   /\ DEq(mRange'.upper, XNeg(scaled(lower)))
           /\ ~mCachedMarginValid'
           /\ Len(emitted') = 2]_vars

\* setRange(-1, 0.5) on a logarithmic axis with a cached margin left the
\* range (-1, -0.001)
C21_Witness ==
  /\ axisCall.op = "setRange(range)"
  /\ mScaleType = "stLogarithmic"
  /\ SameBounds(axisCall.arg, QCPRange(DInt(-1), Dbl(5, 1, -1)))
  /\ SameBounds(mRange, QCPRange(DInt(-1), Dbl(-1, 1, -3)))
  /\ Len(emitted) = 2


(***************************************************************************)
(* TransformSpec: coordToPixel and pixelToCoord on an axis whose            *)
(* configuration Init draws and whose range bounds setRangeLower and       *)
(* setRangeUpper move; pixelToCoord is applied to the pixel coordToPixel   *)
(* has just answered.                                                      *)
(***************************************************************************)
InRange(value, range) == DLessEq(range.lower, value) /\ DLessEq(value, range.upper)

TransformInit ==
  LET LinearRanges == {QCPRange(DInt(0), DInt(5)), QCPRange(DInt(-2), DInt(2)),
                       QCPRange(Dbl(5, 1, -1), DInt(3))}
  IN
  \* ranges of logarithmic scale, as sanitizedForLogScale leaves them
  LET LogRanges == {QCPRange(DInt(1), DInt(100)), QCPRange(Dbl(1, 1, -1), Dbl(1, 1, 3)),
                    QCPRange(DInt(-100), DInt(-1))}
  IN
  LET AxisRects == {QRect(50, 10, 400, 200), QRect(0, 0, 3, 2), QRect(0, 0, 0, 0)}
  IN
  /\ SolverIdle /\ LayerInit({}) /\ MarginInit({}) /\ LayoutInit({})
  /\ mScaleType \in {"stLinear", "stLogarithmic"}
  /\ mRange \in IF mScaleType = "stLinear" THEN LinearRanges ELSE LogRanges
  /\ mRangeReversed \in BOOLEAN
  /\ orientation \in {"Horizontal", "Vertical"}
  /\ mAxisRect \in AxisRects
  /\ mCachedMarginValid = FALSE
  /\ mTickStep = DInt(1)
  /\ mAutoTickStep = TRUE
  /\ mAutoTickCount = 6
  /\ mTickVector = <<>>
  /\ marginParts = MarginParts
  /\ emitted = <<>>
  /\ axisCall = NoAxisCall

\* either bound is set to a bound the range has
TransformNext ==
  LET setRangeUpper(ax, upper) ==
        IF DEq(ax.mRange.upper, upper) THEN ax
        ELSE LET changed == [ax.mRange EXCEPT !.upper = upper]
                 newRange == IF ax.mScaleType = "stLogarithmic"
                             THEN sanitizedForLogScale(changed)
                             ELSE sanitizedForLinScale(changed)
             IN [ax EXCEPT !.mRange = newRange,
                           !.mCachedMarginValid = FALSE,
                           !.emitted = RangeChanged(newRange, ax.mRange)]
      SetRangeUpper(upper) ==
        /\ SetAxisState(setRangeUpper(AxisState, upper))
        /\ axisCall' = [NoAxisCall EXCEPT !.op = "setRangeUpper", !.value = upper]
      CoordToPixel(value) ==
        /\ axisCall' = [NoAxisCall EXCEPT !.op = "coordToPixel", !.value = value,
                                          !.ret = coordToPixel(AxisState, value)]
        /\ SetAxisState(AxisState)
  IN
  \* in logarithmic scale for values within the range
  LET PixelToCoord ==
        /\ axisCall.op = "coordToPixel"
        /\ mScaleType = "stLinear" \/ InRange(axisCall.value, mRange)
        /\ axisCall' = [NoAxisCall EXCEPT !.op = "pixelToCoord", !.value = axisCall.ret,
                                          !.ret = pixelToCoord(AxisState, axisCall.ret),
                                          !.from = <<axisCall.value>>]
        /\ SetAxisState(AxisState)
  IN
  \* the bounds, the centre and a value next to the lower bound; in logarithmic
  \* scale the bounds, their neighbours by a factor of ten, and zero
  LET TransformValues ==
        IF mScaleType = "stLinear"
        THEN {mRange.lower, mRange.upper, center(mRange), XAdd(mRange.lower, DInt(1)),
              XAdd(mRange.upper, DInt(1))}
        ELSE {mRange.lower, mRange.upper, XMul(mRange.lower, DInt(10)),
              XMul(mRange.lower, Dbl(1, 1, -1)), DInt(0)}
  IN
  \/ \E value \in TransformValues : CoordToPixel(value)
  \/ PixelToCoord
  \/ \E lower \in {mRange.lower, mRange.upper} : SetRangeLower(lower)
  \/ \E upper \in {mRange.lower, mRange.upper} : SetRangeUpper(upper)

TransformSpec == TransformInit /\ [][TransformNext]_vars

\* C15 as stated: for every value v with lower <= v <= upper,
\* pixelToCoord(coordToPixel(v)) = v, in linear and logarithmic scale,
\* horizontal and vertical orientation, reversed or not.
C15_RoundTrip ==
  (/\ axisCall.op = "pixelToCoord"
   /\ InRange(axisCall.from[1], mRange))
  => DEq(axisCall.ret, axisCall.from[1])

\* C15 amended: for every value v with lower <= v <= upper,
\* pixelToCoord(coordToPixel(v)) = v, in linear and logarithmic scale,
\* horizontal and vertical orientation, reversed or not, when validRange
\* holds of the range and the axis rect has a width (horizontal axis) or
\* height (vertical axis) other than zero.
C15_RoundTripExtended ==
  (/\ axisCall.op = "pixelToCoord"
   /\ InRange(axisCall.from[1], mRange)
   /\ validRange(mRange.lower, mRange.upper)
   /\ IF orientation = "Horizontal" THEN width(mAxisRect) # 0 ELSE height(mAxisRect) # 0)
  => DEq(axisCall.ret, axisCall.from[1])

\* a value strictly inside the range went to a pixel and back, on a reversed
\* vertical axis of logarithmic scale
C15_Witness ==
  /\ axisCall.op = "pixelToCoord"
  /\ DLess(mRange.lower, axisCall.from[1]) /\ DLess(axisCall.from[1], mRange.upper)
  /\ validRange(mRange.lower, mRange.upper)
  /\ height(mAxisRect) # 0
  /\ mScaleType = "stLogarithmic" /\ orientation = "Vertical" /\ mRangeReversed
  /\ DEq(axisCall.ret, axisCall.from[1])

\* the pixels of the bounds and of the centre on a linear horizontal axis
\* whose axis rect has left edge L and width W
LinearHorizontalPixels ==
  LET atLeft == DInt(mAxisRect.x1)
      atRight == DInt(mAxisRect.x1 + width(mAxisRect))
      middle == XAdd(DInt(mAxisRect.x1), XMul(DInt(width(mAxisRect)), Dbl(5, 1, -1)))
      lowerPixel == IF mRangeReversed THEN atRight ELSE atLeft
      upperPixel == IF mRangeReversed THEN atLeft ELSE atRight
  IN /\ DEq(axisCall.value, mRange.lower) => DEq(axisCall.ret, lowerPixel)
     /\ DEq(axisCall.value, mRange.upper) => DEq(axisCall.ret, upperPixel)
     /\ DEq(axisCall.value, center(mRange)) => DEq(axisCall.ret, middle)

TickNext ==
  LET setAutoTickCount(ax, approximateCount) ==
        IF ax.mAutoTickCount # approximateCount /\ approximateCount > 0
        THEN [ax EXCEPT !.mAutoTickCount = approximateCount, !.mCachedMarginValid = FALSE]
        ELSE ax
      setAutoTickStep(ax, on) ==
        IF ax.mAutoTickStep # on
        THEN [ax EXCEPT !.mAutoTickStep = on, !.mCachedMarginValid = FALSE]
        ELSE ax
      setTickStep(ax, step) ==
        IF ~DEq(ax.mTickStep, step)
        THEN [ax EXCEPT !.mTickStep = step, !.mCachedMarginValid = FALSE]
        ELSE ax
  IN
  \* qFloor(qLn(x)/qLn(10.0)) for x just below y > 0, searched downwards from p
  LET RECURSIVE FloorLog10Below(_, _)
      FloorLog10Below(y, p) ==
        IF DLess(Dbl(1, 1, p), y) THEN p ELSE FloorLog10Below(y, p - 1)
  IN
  \* (int)x for x just below y > 0
  LET IntBelow(y) == DCeil(y) - 1
  IN
  \* the part of generateAutoTicks under if (mAutoTickStep)
  LET AutoTickStep(ax) ==
        LET y == XDiv(size(ax.mRange), DInt(ax.mAutoTickCount))
            magnitudeFactor == Dbl(1, 1, FloorLog10Below(y, y.e + 10))
            tickStepMantissa == XDiv(y, magnitudeFactor)
        IN IF DLessEq(tickStepMantissa, DInt(5))
           THEN XMul(XDiv(DInt(IntBelow(XMul(tickStepMantissa, DInt(2)))), DInt(2)),
                     magnitudeFactor)
           ELSE XMul(XMul(DInt(IntBelow(XDiv(tickStepMantissa, DInt(2)))), DInt(2)),
                     magnitudeFactor)
  IN
  \* the part of generateAutoTicks that fills mTickVector from the tick step
  LET TickPositions(ax, step) ==
        LET firstStep == DFloor(XDiv(ax.mRange.lower, step))
            lastStep == DCeil(XDiv(ax.mRange.upper, step))
            tickcount == IF lastStep - firstStep + 1 < 0 THEN 0 ELSE lastStep - firstStep + 1
        IN [i \in 1..tickcount |-> XMul(DInt(firstStep + i - 1), step)]
  IN
  \* linear scale, the scale of every axis ticks are generated for here
  LET generateAutoTicks(ax) ==
        CASE ax.mScaleType = "stLinear" ->
          LET step == IF ax.mAutoTickStep THEN AutoTickStep(ax) ELSE ax.mTickStep
          IN [ax EXCEPT !.mTickStep = step, !.mTickVector = TickPositions(ax, step)]
  IN
  \* mAutoTicks is on and the ticks are visible, as constructed
  LET setupTickVectors(ax) ==
        IF DLessEq(size(ax.mRange), DInt(0)) THEN ax ELSE generateAutoTicks(ax)
  IN
  LET SetAutoTickCount(approximateCount) ==
        /\ SetAxisState(setAutoTickCount(AxisState, approximateCount))
        /\ axisCall' = [NoAxisCall EXCEPT !.op = "setAutoTickCount"]
      SetAutoTickStep(on) ==
        /\ SetAxisState(setAutoTickStep(AxisState, on))
        /\ axisCall' = [NoAxisCall EXCEPT !.op = "setAutoTickStep"]
      SetTickStep(step) ==
        /\ SetAxisState(setTickStep(AxisState, step))
        /\ axisCall' = [NoAxisCall EXCEPT !.op = "setTickStep", !.value = step]
      SetupTickVectors ==
        /\ SetAxisState(setupTickVectors(AxisState))
        /\ axisCall' = [NoAxisCall EXCEPT !.op = "setupTickVectors"]
      TickRanges == {QCPRange(DInt(0), DInt(5)), QCPRange(DInt(0), DInt(6)),
                     QCPRange(DInt(0), DInt(9)), QCPRange(Dbl(-15, 1, -1), Dbl(-5, 1, -1)),
                     QCPRange(DInt(0), Dbl(56, 1, -1))}
      TickCounts == {0, 1, 4}
      TickSteps == {DInt(-2), DInt(2)}
  IN
  \/ \E range \in TickRanges : SetRange(range)
  \/ SetRangeLower(mRange.upper)
  \/ \E approximateCount \in TickCounts : SetAutoTickCount(approximateCount)
  \/ \E on \in BOOLEAN : SetAutoTickStep(on)
  \/ \E step \in TickSteps : SetTickStep(step)
  \/ SetupTickVectors

TickSpec == Constructed({}, {}) /\ [][TickNext]_vars

\* C17: for every range of positive size the generated tick vector is
\* strictly ascending, consists of consecutive integer multiples of the tick
\* step, every tick lies in [floor(lower/step)*step, ceil(upper/step)*step],
\* the first tick is <= lower and the last tick is >= upper.
C17_LinearTicks ==
  \* the tick is an integer multiple of the tick step
  LET IsMultiple(tick) ==
        DEq(XMul(DInt(DFloor(XDiv(tick, mTickStep))), mTickStep), tick)
  IN
  (axisCall.op = "setupTickVectors" /\ DLess(DInt(0), size(mRange))) =>
    LET count == Len(mTickVector)
        first == XMul(DInt(DFloor(XDiv(mRange.lower, mTickStep))), mTickStep)
        last == XMul(DInt(DCeil(XDiv(mRange.upper, mTickStep))), mTickStep)
    IN /\ \A i \in 1..(count - 1) : DLess(mTickVector[i], mTickVector[i + 1])
       /\ \A i \in 1..count : IsMultiple(mTickVector[i])
       /\ \A i \in 1..(count - 1) :
            DEq(XSub(mTickVector[i + 1], mTickVector[i]), mTickStep)
       /\ \A i \in 1..count :
            DLessEq(first, mTickVector[i]) /\ DLessEq(mTickVector[i], last)
       /\ count > 0
       /\ DLessEq(mTickVector[1], mRange.lower)
       /\ DLessEq(mRange.upper, mTickVector[count])

\* C18: with automatic tick step and the tick count N, for every range of
\* positive size the number of generated ticks differs from N by at most 2.
C18_TickCount ==
  (/\ axisCall.op = "setupTickVectors"
   /\ DLess(DInt(0), size(mRange))
   /\ mAutoTickStep)
  => /\ Len(mTickVector) - mAutoTickCount <= 2
     /\ mAutoTickCount - Len(mTickVector) <= 2

\* C25: with the raw step range.size/N written as mantissa m in [1,10) times
\* a power of ten, the automatic tick step has the mantissa m rounded to the
\* nearest multiple of 0.5 when m < 5 and to the nearest even multiple of 2
\* otherwise; the step is strictly positive, and its own mantissa is a
\* multiple of 0.5 in [1,10), the entries of the sub-tick lookup tables.
C25_AutoTickStep ==
  (/\ axisCall.op = "setupTickVectors"
   /\ DLess(DInt(0), size(mRange))
   /\ mAutoTickStep)
  => LET raw == XDiv(size(mRange), DInt(mAutoTickCount))
         IsInteger(x) == DEq(DInt(DFloor(x)), x)
         Magnitudes == {Dbl(1, 1, p) : p \in -6..6}
     IN /\ \E magnitude \in Magnitudes :
             LET m == XDiv(raw, magnitude)
                 chosen == XDiv(mTickStep, magnitude)
             IN /\ DLessEq(DInt(1), m) /\ DLess(m, DInt(10))
                /\ IF DLess(m, DInt(5))
                   THEN /\ IsInteger(XMul(chosen, DInt(2)))
                        /\ DLessEq(qAbs(XSub(chosen, m)), Dbl(25, 1, -2))
                   ELSE /\ IsInteger(XDiv(chosen, DInt(2)))
                        /\ DLessEq(qAbs(XSub(chosen, m)), DInt(1))
        /\ DLess(DInt(0), mTickStep)
        /\ \E magnitude \in Magnitudes :
             LET mantissa == XDiv(mTickStep, magnitude)
             IN /\ DLessEq(DInt(1), mantissa) /\ DLess(mantissa, DInt(10))
                /\ IsInteger(XMul(mantissa, DInt(2)))

====
